---- MODULE Spec2Model ----
(***************************************************************************)
(* State-machine model of traversability_estimation's TraversabilityMap   *)
(* (src/traversability_estimation/src/TraversabilityMap.cpp).             *)
(*                                                                         *)
(* Representation.                                                         *)
(*  - The grid is one row of GridCols cells; cell c has its centre at the  *)
(*    position resolution * c (centimetres).  Positions 0 and             *)
(*    resolution * (GridCols + 1) lie outside the grid.                    *)
(*  - A layer value (32-bit float) is an integer number of thousandths;    *)
(*    NaN is the invalid value.  Elevations are centimetres.               *)
(*  - A double is an exact rational <<n, d>> of thousandths, d > 0;        *)
(*    <<0, 0>> is a non-finite double.  ToFloat rounds a double to the     *)
(*    nearest layer value, as static_cast<float> rounds to the nearest     *)
(*    float.                                                               *)
(*  - A polygon is the set of its vertex positions on the row (the empty   *)
(*    set is the empty polygon); its hull is the interval they span.       *)
(***************************************************************************)
EXTENDS Integers, Sequences, FiniteSets, TLC

\* ------------------------------------------------------------- bounds
GridCols == 5
MaxPoses == 3

\* ------------------------------------------------- program constants
resolution == 10
maxGapWidth_ == 21
criticalStepHeight_ == 5
offset == 15
nSkip == 3
One == 1000
traversabilityMinValue == 0
traversabilityMaxValue == 1000

NaN == 0 - 1

traversabilityType_ == "traversability"
slopeType_ == "traversability_slope"
stepType_ == "traversability_step"
roughnessType_ == "traversability_roughness"
robotSlopeType_ == "robot_slope"
mapFrameId_ == "map"

VARIABLES
  elevationMap_,                  \* the stored elevation grid
  elevationMapInitialized_,
  traversabilityMap_,             \* the shared traversability grid
  traversabilityMapInitialized_,
  terrainMap_,                    \* the shared terrain grid
  zPosition_,
  traversabilityDefault_,
  checkForRoughness_,             \* footprint/verify_roughness_footprint
  checkRobotInclination_,         \* footprint/check_robot_inclination
  pc,                             \* position of the computeTraversability caller
  traversabilityMapCopy,          \* its local copy of the traversability grid
  last,                           \* the call that returned last: operation, arguments, outcome
  cacheEpoch,                     \* history: "reset" after a footprint-layer reset,
                                  \* "changed" once the base layers were replaced after it
  setSinceCopy,                   \* history: a setTraversabilityMap succeeded after the
                                  \* computeTraversability in flight copied the map out
  traversabilityDefaultReadAtInit_,
  mutex,                          \* the owner of each grid mutex, "none" when free
  scan,                           \* the frame of the thread inside a disc or polygon query
  reader,                         \* the thread of getTraversabilityMap / publishTraversabilityMap
  threads                         \* the frame of each thread inside a locking operation

vars == <<elevationMap_, elevationMapInitialized_, traversabilityMap_, traversabilityMapInitialized_,
          terrainMap_, zPosition_, traversabilityDefault_, checkForRoughness_,
          checkRobotInclination_, pc, traversabilityMapCopy, last, cacheEpoch, setSinceCopy,
          traversabilityDefaultReadAtInit_, mutex, scan, reader, threads>>

\* ------------------------------------------------------------ doubles
Abs(x) == IF x < 0 THEN 0 - x ELSE x

RECURSIVE GCD(_, _)
GCD(a, b) == IF b = 0 THEN a ELSE GCD(b, a % b)

NaNq == <<0, 0>>

RNorm(n, d) ==
  IF d = 0 THEN NaNq
  ELSE LET s == IF d < 0 THEN 0 - 1 ELSE 1
           g == GCD(Abs(n), Abs(d))
       IN  <<(s * n) \div g, (s * d) \div g>>

Dbl(v) == IF v = NaN THEN NaNq ELSE <<v, 1>>

RFinite(p) == p[2] # 0

RAdd(p, q) == IF RFinite(p) /\ RFinite(q) THEN RNorm(p[1] * q[2] + q[1] * p[2], p[2] * q[2]) ELSE NaNq

RMul(p, q) == IF RFinite(p) /\ RFinite(q) THEN RNorm(p[1] * q[1], p[2] * q[2]) ELSE NaNq

\* x / 0 is non-finite (inf or NaN in the code): both are <<0, 0>> here.
RDiv(p, q) == IF RFinite(p) /\ RFinite(q) /\ q[1] # 0 THEN RNorm(p[1] * q[2], p[2] * q[1]) ELSE NaNq

\* x != 0.0 of the code: true of a non-finite x.
RNonZero(p) == ~(RFinite(p) /\ p[1] = 0)

\* static_cast<float>(x): the nearest layer value.
ToFloat(p) == IF RFinite(p) THEN (2 * p[1] + p[2]) \div (2 * p[2]) ELSE NaN

\* -------------------------------------------------------------- grids
Cells(m) == 1 .. m.size

Has(m, layer) == layer \in DOMAIN m.layers

At(m, layer, c) == m.layers[layer][c]

IsValid(m, layer, c) == m.layers[layer][c] # NaN

SetAt(m, layer, c, v) == [m EXCEPT !.layers[layer][c] = v]

\* GridMap::add: a new layer, or an existing one replaced, all cells invalid.
AddLayer(m, layer) ==
  [m EXCEPT !.layers = [l \in (DOMAIN m.layers) \cup {layer} |->
                          IF l = layer THEN [c \in 1 .. m.size |-> NaN] ELSE m.layers[l]]]

\* GridMap::clear(layer): all cells of the layer invalid.
ClearLayer(m, layer) == [m EXCEPT !.layers[layer] = [c \in 1 .. m.size |-> NaN]]

\* The default-constructed grid: no cells, no layers.
EmptyMap == [size |-> 0, layers |-> <<>>]

getPosition(c) == resolution * c

isInside(m, pos) == m.size > 0 /\ 2 * pos > resolution /\ 2 * pos <= resolution * (2 * m.size + 1)

getIndex(pos) == (2 * pos + resolution) \div (2 * resolution)

\* ---------------------------------------------------------- iterators
\* SpiralIterator: ring k holds the cells k columns from the centre, inside
\* the grid and within the radius; <<cell, getCurrentRadius()>> in visiting order.
SpiralRing(m, c0, k, radius) ==
  IF k = 0 THEN <<<<c0, 0>>>>
  ELSE SelectSeq(<<<<c0 - k, k * resolution>>, <<c0 + k, k * resolution>>>>,
                 LAMBDA e : e[1] \in Cells(m) /\ k * resolution <= radius)

RECURSIVE SpiralFrom(_, _, _, _)
SpiralFrom(m, c0, k, radius) ==
  IF k * resolution > radius + resolution THEN <<>>
  ELSE SpiralRing(m, c0, k, radius) \o SpiralFrom(m, c0, k + 1, radius)

SpiralIterator(m, center, radius) == SpiralFrom(m, getIndex(center), 0, radius)

\* CircleIterator: the cells whose centre is within the radius of cell c0.
CircleIterator(m, c0, radius) == {c \in Cells(m) : Abs(c - c0) * resolution <= radius}

\* LineIterator: the cells from a to b, both included, in order.
LineIterator(a, b) ==
  [i \in 1 .. (Abs(b - a) + 1) |-> IF b >= a THEN a + (i - 1) ELSE a - (i - 1)]

\* PolygonIterator: the cells whose centre lies inside the polygon, in order.
SetMin(S) == CHOOSE x \in S : \A y \in S : x <= y

SetMax(S) == CHOOSE x \in S : \A y \in S : x >= y

PolygonCells(m, polygon) ==
  IF polygon = {} THEN {}
  ELSE {c \in Cells(m) : SetMin(polygon) <= getPosition(c) /\ getPosition(c) <= SetMax(polygon)}

RECURSIVE SortedSeq(_)
SortedSeq(S) == IF S = {} THEN <<>> ELSE <<SetMin(S)>> \o SortedSeq(S \ {SetMin(S)})

\* Polygon::convexHull / monotoneChainConvexHullOfPoints on the row.
convexHull(points) == IF points = {} THEN {} ELSE {SetMin(points), SetMax(points)}

fromCircle(center, radius) == {center - radius, center + radius}

\* ----------------------------------------------- per-cell admissibility
\* The outcome of a check: the grid (with its cache writes), the boolean
\* returned, and whether GridMap::at threw std::out_of_range (layer missing).
Ret(m, b) == [m |-> m, ret |-> b, exc |-> FALSE]

Thrown(m) == [m |-> m, ret |-> FALSE, exc |-> TRUE]

nSlopesCritical == (2 * (3 * resolution) * maxGapWidth_) \div (3 * resolution * resolution)

nRoughnessCritical == (3 * (3 * resolution) * maxGapWidth_) \div (2 * 3 * resolution * resolution)

\* The slope check searching the neighbourhood whatever the cache holds.
checkForSlopeAlwaysSearches(m, index) ==
  IF ~Has(m, slopeType_) THEN Thrown(m)
  ELSE IF At(m, slopeType_, index) # 0 THEN Ret(m, TRUE)
  ELSE IF ~Has(m, "slope_footprint") THEN Thrown(m)
  ELSE LET nSlopes == Cardinality({c \in CircleIterator(m, index, 3 * resolution) :
                                     At(m, slopeType_, c) = 0})
       IN  IF nSlopes > nSlopesCritical
             THEN Ret(SetAt(m, "slope_footprint", index, 0), FALSE)
             ELSE Ret(SetAt(m, "slope_footprint", index, One), TRUE)

checkForSlope(m, index) ==
  IF ~Has(m, slopeType_) THEN Thrown(m)
  ELSE IF At(m, slopeType_, index) # 0 THEN Ret(m, TRUE)
  ELSE IF ~Has(m, "slope_footprint") THEN Thrown(m)
  ELSE IF ~IsValid(m, "slope_footprint", index)
    THEN LET nSlopes == Cardinality({c \in CircleIterator(m, index, 3 * resolution) :
                                       At(m, slopeType_, c) = 0})
         IN  IF nSlopes > nSlopesCritical
               THEN Ret(SetAt(m, "slope_footprint", index, 0), FALSE)
               ELSE Ret(SetAt(m, "slope_footprint", index, One), TRUE)
  ELSE IF At(m, "slope_footprint", index) = 0 THEN Ret(m, FALSE)
  ELSE Ret(m, TRUE)

checkForRoughness(m, index) ==
  IF ~Has(m, roughnessType_) THEN Thrown(m)
  ELSE IF At(m, roughnessType_, index) # 0 THEN Ret(m, TRUE)
  ELSE IF ~Has(m, "roughness_footprint") THEN Thrown(m)
  ELSE IF ~IsValid(m, "roughness_footprint", index)
    THEN LET nRoughness == Cardinality({c \in CircleIterator(m, index, 3 * resolution) :
                                          At(m, roughnessType_, c) = 0})
         IN  IF nRoughness > nRoughnessCritical
               THEN Ret(SetAt(m, "roughness_footprint", index, 0), FALSE)
               ELSE Ret(SetAt(m, "roughness_footprint", index, One), TRUE)
  ELSE IF At(m, "roughness_footprint", index) = 0 THEN Ret(m, FALSE)
  ELSE Ret(m, TRUE)

ElevAbove(e, h) == e # NaN /\ h # NaN /\ e > h + criticalStepHeight_

ElevBelow(e, h) == e # NaN /\ h # NaN /\ e < h - criticalStepHeight_

\* The outward search for a landing point (line 881).
RECURSIVE gapLanding(_, _, _, _)
gapLanding(m, subMapPos, vec, pos) ==
  IF Abs(pos - subMapPos + vec) < maxGapWidth_ /\ isInside(m, pos + vec)
    THEN gapLanding(m, subMapPos, vec, pos + vec)
    ELSE pos

\* The line trace taking a wall for the far side of a gap.
RECURSIVE traceLineNoWall(_, _, _, _, _)
traceLineNoWall(m, line, i, height, gapStart) ==
  IF i > Len(line) THEN gapStart
  ELSE LET e == At(m, "elevation", line[i])
       IN  IF ElevBelow(e, height) \/ e = NaN THEN traceLineNoWall(m, line, i + 1, height, TRUE)
           ELSE IF gapStart THEN FALSE
           ELSE traceLineNoWall(m, line, i + 1, height, FALSE)

\* The line trace from the candidate to the landing point (lines 884-902):
\* TRUE when the query cell is to be marked non-admissible (a wall on the
\* line, or a gap that opens and does not close before the line ends).
RECURSIVE traceLine(_, _, _, _, _)
traceLine(m, line, i, height, gapStart) ==
  IF i > Len(line) THEN gapStart
  ELSE LET e == At(m, "elevation", line[i])
       IN  IF ElevAbove(e, height) THEN TRUE
           ELSE IF ElevBelow(e, height) \/ e = NaN THEN traceLine(m, line, i + 1, height, TRUE)
           ELSE IF gapStart THEN FALSE
           ELSE traceLine(m, line, i + 1, height, FALSE)

\* One candidate index of the step check (lines 858-904).  The sub-map is the
\* window of 2.5 cells around the candidate: the candidate and its neighbours.
\* getSubmap succeeds for the position of a cell of the grid.
stepCandidateFails(m, indexStep, index) ==
  LET subMapPos == getPosition(index)
      toCenter  == getPosition(indexStep) - subMapPos
      height    == At(m, "elevation", index)
  IN  \E s \in {index - 1, index, index + 1} \cap Cells(m) :
        LET vec == getPosition(s) - subMapPos
        IN  /\ At(m, stepType_, s) = 0
            /\ ElevBelow(At(m, "elevation", s), height)
            /\ ~(2 * Abs(vec) < 5)
            /\ ~(2 * Abs(toCenter) > 5 /\ toCenter * vec < 0)
            /\ traceLine(m, LineIterator(index, getIndex(gapLanding(m, subMapPos, vec, subMapPos + vec))),
                         1, height, FALSE)

checkForStep(m, indexStep) ==
  IF ~Has(m, stepType_) THEN Thrown(m)
  ELSE IF At(m, stepType_, indexStep) # 0 THEN Ret(m, TRUE)
  ELSE IF ~Has(m, "step_footprint") THEN Thrown(m)
  ELSE IF ~IsValid(m, "step_footprint", indexStep)
    THEN IF ~Has(m, "elevation") THEN Thrown(m)
         ELSE LET height  == At(m, "elevation", indexStep)
                  high    == {c \in CircleIterator(m, indexStep, (5 * resolution) \div 2) :
                                ElevAbove(At(m, "elevation", c), height) /\ At(m, stepType_, c) = 0}
                  indices == IF high = {} THEN {indexStep} ELSE high
              IN  IF \E index \in indices : stepCandidateFails(m, indexStep, index)
                    THEN Ret(SetAt(m, "step_footprint", indexStep, 0), FALSE)
                    ELSE Ret(SetAt(m, "step_footprint", indexStep, One), TRUE)
  ELSE IF At(m, "step_footprint", indexStep) = 0 THEN Ret(m, FALSE)
  ELSE Ret(m, TRUE)

\* The three checks all run, whatever the ones before return.
isTraversableForFiltersRunsAll(m, indexStep) ==
  LET afterRoughness(slope, step, rough) ==
        IF slope.exc \/ step.exc \/ rough.exc THEN Thrown(rough.m)
        ELSE Ret(rough.m, slope.ret /\ step.ret /\ rough.ret)
      afterStep(slope, step) ==
        afterRoughness(slope, step,
                       IF checkForRoughness_ THEN checkForRoughness(step.m, indexStep) ELSE Ret(step.m, TRUE))
      afterSlope(slope) == afterStep(slope, checkForStep(slope.m, indexStep))
  IN  afterSlope(checkForSlope(m, indexStep))

\* slope, then step, then roughness (when enabled); a failing check ends it.
isTraversableForFilters(m, indexStep) ==
  LET afterStep(step) ==
        IF step.exc \/ ~step.ret THEN step
        ELSE IF checkForRoughness_ THEN checkForRoughness(step.m, indexStep)
        ELSE step
      afterSlope(slope) ==
        IF slope.exc \/ ~slope.ret THEN slope ELSE afterStep(checkForStep(slope.m, indexStep))
  IN  afterSlope(checkForSlope(m, indexStep))

\* ------------------------------------------------------ point/disc query
\* The outcome of a query: the grid with its cache writes, the boolean and
\* the score returned, the untraversable polygon, whether at() threw, and
\* the number of admissibility checks (isTraversableForFilters calls) run.
QueryOut(m, ret, traversability, polygon, nFilters) ==
  [m |-> m, ret |-> ret, traversability |-> traversability, polygon |-> polygon,
   exc |-> FALSE, nFilters |-> nFilters]

QueryThrown(m, traversability, nFilters) ==
  [m |-> m, ret |-> FALSE, traversability |-> traversability, polygon |-> {},
   exc |-> TRUE, nFilters |-> nFilters]

\* The blend factor of the partial-discount branch (line 753).
blendFactor(untraversableRadius, radiusMax, radiusMin) ==
  RDiv(RAdd(RDiv(<<untraversableRadius - radiusMin, 1>>, <<radiusMax - radiusMin, 1>>), <<1, 1>>), <<2, 1>>)

\* The value of a visited cell with nothing substituted for an invalid one.
cellTraversabilityNoDefault(m, c) ==
  IF ~IsValid(m, traversabilityType_, c) THEN <<0, 1>> ELSE Dbl(At(m, traversabilityType_, c))

\* The value a visited admissible cell adds to the running sum.
cellTraversability(m, c) ==
  IF ~IsValid(m, traversabilityType_, c) THEN Dbl(traversabilityDefault_)
  ELSE Dbl(At(m, traversabilityType_, c))

\* One pass of the body of the spiral loop (lines 736-772) at cell c, f the
\* outcome of isTraversableForFilters there.  st holds the loop's locals;
\* done = "return" is the return false of line 763, "throw" an exception,
\* "next" the step to the next cell.
spiralCell(q, c, untraversableRadius, f, st) ==
  LET st1 == [st EXCEPT !.nFilters = @ + 1]
      scaled == RMul(st.traversability,
                     RDiv(blendFactor(untraversableRadius, q.radiusMax, q.radiusMin), <<st.nCells, 1>>))
      done == IF q.computeUntraversablePolygon THEN "next" ELSE "return"
  IN  IF f.exc THEN [m |-> f.m, st |-> st1, done |-> "throw"]
      ELSE IF f.ret
        THEN [m |-> f.m, done |-> "next",
              st |-> [st1 EXCEPT !.nCells = @ + 1,
                                 !.traversability = RAdd(@, cellTraversability(f.m, c))]]
      ELSE IF q.radiusMin = 0 \/ untraversableRadius <= q.radiusMin
        THEN [m |-> SetAt(f.m, "traversability_footprint", q.indexCenter, 0), done |-> done,
              st |-> [st1 EXCEPT !.circleIsTraversable = FALSE,
                                 !.untraversablePositions = @ \cup {getPosition(c)}]]
      ELSE IF st.circleIsTraversable
        THEN [m |-> SetAt(f.m, "traversability_footprint", q.indexCenter, ToFloat(scaled)), done |-> done,
              st |-> [st1 EXCEPT !.traversability = scaled, !.traversableRadiusBiggerMinRadius = TRUE]]
      ELSE [m |-> f.m, st |-> st1, done |-> done]

\* The spiral loop of the disc query (lines 734-773) from the i-th spiral
\* cell on; done = "end" is the loop's normal end.
RECURSIVE spiralLoop(_, _, _, _, _)
spiralLoop(m, q, cells, i, st) ==
  IF i > Len(cells) \/ st.traversableRadiusBiggerMinRadius
    THEN [m |-> m, st |-> st, done |-> "end"]
    ELSE LET continue(r) == IF r.done = "next" THEN spiralLoop(r.m, q, cells, i + 1, r.st) ELSE r
         IN  continue(spiralCell(q, cells[i][1], cells[i][2], isTraversableForFilters(m, cells[i][1]), st))

\* The disc query returning the running sum where the mean is due.
circleResultSum(q, loop) ==
  IF loop.done = "throw" THEN QueryThrown(loop.m, loop.st.traversability, loop.st.nFilters)
  ELSE IF loop.done = "return"
    THEN QueryOut(loop.m, FALSE, loop.st.traversability, {}, loop.st.nFilters)
  ELSE IF loop.st.circleIsTraversable
    THEN QueryOut(SetAt(loop.m, "traversability_footprint", q.indexCenter, ToFloat(loop.st.traversability)),
                  TRUE, loop.st.traversability, {}, loop.st.nFilters)
  ELSE QueryOut(loop.m, FALSE, loop.st.traversability,
                IF q.computeUntraversablePolygon THEN convexHull(loop.st.untraversablePositions) ELSE {},
                loop.st.nFilters)

\* What the disc query returns once the loop is left (lines 763, 775-792).
circleResult(q, loop) ==
  IF loop.done = "throw" THEN QueryThrown(loop.m, loop.st.traversability, loop.st.nFilters)
  ELSE IF loop.done = "return"
    THEN QueryOut(loop.m, FALSE, loop.st.traversability, {}, loop.st.nFilters)
  ELSE IF loop.st.circleIsTraversable
    THEN QueryOut(SetAt(loop.m, "traversability_footprint", q.indexCenter,
                        ToFloat(RDiv(loop.st.traversability, <<loop.st.nCells, 1>>))),
                  TRUE, RDiv(loop.st.traversability, <<loop.st.nCells, 1>>), {}, loop.st.nFilters)
  ELSE QueryOut(loop.m, FALSE, loop.st.traversability,
                IF q.computeUntraversablePolygon THEN convexHull(loop.st.untraversablePositions) ELSE {},
                loop.st.nFilters)

\* The known value answered as traversable whatever it is.
circleKnownTraversable(traversability, center, radiusMax, computeUntraversablePolygon, m) ==
  QueryOut(m, TRUE, traversability, {}, 0)

\* What the disc query returns without a search: the default outside the
\* grid (lines 709-714), the cached value of the centre cell (lines 720-725).
circleKnown(traversability, center, radiusMax, computeUntraversablePolygon, m) ==
  QueryOut(m, RNonZero(traversability), traversability,
           IF computeUntraversablePolygon /\ ~RNonZero(traversability)
             THEN fromCircle(center, radiusMax) ELSE {},
           0)

\* isTraversable(center, radiusMax, computeUntraversablePolygon, traversability,
\* untraversablePolygon, radiusMin), lines 701-793.
isTraversableCircle(m, center, radiusMax, computeUntraversablePolygon, radiusMin) ==
  IF ~isInside(m, center)
    THEN circleKnown(Dbl(traversabilityDefault_), center, radiusMax, computeUntraversablePolygon, m)
  ELSE IF ~Has(m, "traversability_footprint") THEN QueryThrown(m, <<0, 1>>, 0)
  ELSE IF IsValid(m, "traversability_footprint", getIndex(center))
    THEN circleKnown(Dbl(At(m, "traversability_footprint", getIndex(center))), center, radiusMax,
                     computeUntraversablePolygon, m)
  ELSE
    LET q == [indexCenter |-> getIndex(center), radiusMax |-> radiusMax, radiusMin |-> radiusMin,
              computeUntraversablePolygon |-> computeUntraversablePolygon]
        st0 == [nCells |-> 0, traversability |-> <<0, 1>>, circleIsTraversable |-> TRUE,
                traversableRadiusBiggerMinRadius |-> FALSE, untraversablePositions |-> {},
                nFilters |-> 0]
    IN  circleResult(q, spiralLoop(m, q, SpiralIterator(m, center, radiusMax), 1, st0))

\* The loop body leaving at the first inadmissible cell whatever is asked for.
polygonCellStopsAtFirst(computeUntraversablePolygon, c, f, st) ==
  LET st1 == [st EXCEPT !.nFilters = @ + 1]
  IN  IF f.exc THEN [m |-> f.m, st |-> st1, done |-> "throw"]
      ELSE IF f.ret
        THEN [m |-> f.m, done |-> "next",
              st |-> [st1 EXCEPT !.nCells = @ + 1,
                                 !.traversability = RAdd(@, cellTraversability(f.m, c))]]
      ELSE IF computeUntraversablePolygon
        THEN [m |-> f.m, done |-> "end",
              st |-> [st1 EXCEPT !.pathIsTraversable = FALSE,
                                 !.untraversablePositions = @ \cup {getPosition(c)}]]
      ELSE [m |-> f.m, st |-> [st1 EXCEPT !.pathIsTraversable = FALSE], done |-> "return"]

\* --------------------------------------------------------- polygon query
\* One pass of the body of the loop of the polygon query (lines 649-666).
polygonCell(computeUntraversablePolygon, c, f, st) ==
  LET st1 == [st EXCEPT !.nFilters = @ + 1]
  IN  IF f.exc THEN [m |-> f.m, st |-> st1, done |-> "throw"]
      ELSE IF f.ret
        THEN [m |-> f.m, done |-> "next",
              st |-> [st1 EXCEPT !.nCells = @ + 1,
                                 !.traversability = RAdd(@, cellTraversability(f.m, c))]]
      ELSE IF computeUntraversablePolygon
        THEN [m |-> f.m, done |-> "next",
              st |-> [st1 EXCEPT !.pathIsTraversable = FALSE,
                                 !.untraversablePositions = @ \cup {getPosition(c)}]]
      ELSE [m |-> f.m, st |-> [st1 EXCEPT !.pathIsTraversable = FALSE], done |-> "return"]

\* The loop of the polygon query (lines 647-667) from the i-th interior cell on.
RECURSIVE polygonLoop(_, _, _, _, _)
polygonLoop(m, computeUntraversablePolygon, cells, i, st) ==
  IF i > Len(cells) THEN [m |-> m, st |-> st, done |-> "end"]
  ELSE LET continue(r) ==
             IF r.done = "next" THEN polygonLoop(r.m, computeUntraversablePolygon, cells, i + 1, r.st) ELSE r
       IN  continue(polygonCell(computeUntraversablePolygon, cells[i], isTraversableForFilters(m, cells[i]), st))

\* What the polygon query returns once the loop is left (lines 661, 669-691).
polygonResult(computeUntraversablePolygon, untraversablePolygon, loop) ==
  IF loop.done = "throw"
    THEN [QueryThrown(loop.m, loop.st.traversability, loop.st.nFilters) EXCEPT !.polygon = untraversablePolygon]
  ELSE IF loop.done = "return"
    THEN QueryOut(loop.m, FALSE, loop.st.traversability, untraversablePolygon, loop.st.nFilters)
  ELSE IF loop.st.pathIsTraversable
    THEN IF loop.st.nCells = 0
           THEN QueryOut(loop.m, traversabilityDefault_ # 0, Dbl(traversabilityDefault_),
                         IF ~computeUntraversablePolygon THEN untraversablePolygon
                         ELSE IF traversabilityDefault_ # 0 THEN {}
                         ELSE convexHull(loop.st.untraversablePositions),
                         loop.st.nFilters)
           ELSE QueryOut(loop.m, TRUE, RDiv(loop.st.traversability, <<loop.st.nCells, 1>>),
                         IF computeUntraversablePolygon THEN {} ELSE untraversablePolygon,
                         loop.st.nFilters)
  ELSE QueryOut(loop.m, FALSE, loop.st.traversability,
                IF computeUntraversablePolygon THEN convexHull(loop.st.untraversablePositions)
                ELSE untraversablePolygon,
                loop.st.nFilters)

\* isTraversable(polygon, computeUntraversablePolygon, traversability,
\* untraversablePolygon), lines 639-692; untraversablePolygon is the caller's
\* polygon, kept when the query does not assign it.
isTraversablePolygon(m, polygon, computeUntraversablePolygon, untraversablePolygon) ==
  polygonResult(computeUntraversablePolygon, untraversablePolygon,
                polygonLoop(m, computeUntraversablePolygon, SortedSeq(PolygonCells(m, polygon)), 1,
                            [nCells |-> 0, traversability |-> <<0, 1>>, pathIsTraversable |-> TRUE,
                             untraversablePositions |-> {}, nFilters |-> 0]))

\* ----------------------------------------------------------- inclination
\* checkInclination, lines 795-809: [ret, exc].  atPosition throws when the
\* layer is missing or the position is outside the grid.
checkInclination(m, start, end) ==
  IF end = start
    THEN IF ~Has(m, robotSlopeType_) \/ ~isInside(m, start) THEN [ret |-> FALSE, exc |-> TRUE]
         ELSE [ret |-> At(m, robotSlopeType_, getIndex(start)) # 0, exc |-> FALSE]
  ELSE IF ~Has(m, robotSlopeType_) THEN [ret |-> FALSE, exc |-> TRUE]
  ELSE LET line == LineIterator(getIndex(start), getIndex(end))
       IN  [ret |-> \A j \in 1 .. Len(line) :
                      ~IsValid(m, robotSlopeType_, line[j]) \/ At(m, robotSlopeType_, line[j]) # 0,
            exc |-> FALSE]

\* ------------------------------------------------------------ path check
\* The outcome of a path check: the grid, the TraversabilityResult, the
\* boolean returned, whether an exception left the call, the admissibility
\* checks run and the path variant entered.
PathOut(m, result, ret, exc, nFilters, variant) ==
  [m |-> m, result |-> result, ret |-> ret, exc |-> exc, nFilters |-> nFilters, variant |-> variant]

\* A fresh TraversabilityResult message.
NewResult == [is_safe |-> FALSE, traversability |-> <<0, 1>>, area |-> <<0, 1>>]

\* One sample of a segment of the circular variant (lines 452-467); qr is
\* the outcome of the disc query at the sample, which line 454 makes only
\* while pathIsTraversable holds.
sampleCell(path, m, st, qr) ==
  LET called == st.pathIsTraversable
      m1 == IF called THEN qr.m ELSE m
      st1 == IF called
               THEN [st EXCEPT !.pathIsTraversable = qr.ret,
                               !.traversabilityTemp = qr.traversability,
                               !.nFilters = @ + qr.nFilters]
               ELSE st
  IN  IF called /\ qr.exc THEN [m |-> m1, st |-> st1, done |-> "throw"]
      ELSE IF ~st1.pathIsTraversable /\ ~path.compute_untraversable_polygon /\ ~path.publishPolygons
        THEN [m |-> m1, st |-> st1, done |-> "return"]
      ELSE [m |-> m1, done |-> "next",
            st |-> [st1 EXCEPT !.traversabilitySum = RAdd(@, st1.traversabilityTemp), !.nLine = @ + 1]]

\* The sampling loop of one segment of the circular variant (lines 451-473)
\* from the j-th cell of the line on: one sample, then nSkip cells skipped.
RECURSIVE sampleLoop(_, _, _, _, _)
sampleLoop(m, path, line, j, st) ==
  IF j > Len(line) THEN [m |-> m, st |-> st, done |-> "end"]
  ELSE LET continue(r) == IF r.done = "next" THEN sampleLoop(r.m, path, line, j + 1 + nSkip, r.st) ELSE r
       IN  continue(sampleCell(path, m, st,
                               isTraversableCircle(m, getPosition(line[j]), path.radius + offset,
                                                   path.compute_untraversable_polygon, path.radius)))

\* The fusion adding the score of the segment to the result.
fuseSegmentSums(path, i, st, traversability, lengthSegment) ==
  [st EXCEPT !.lengthPath = RAdd(@, lengthSegment),
             !.result.traversability = RAdd(@, traversability)]

\* The fusion of a successful segment into the result (lines 488-499).
\* lengthPath is declared inside the loop body and read before it is written
\* when i > 1: path.lengthPathSlot says whether the read finds the value the
\* previous iteration left there ("kept") or zero ("zero").
fuseSegment(path, i, st, traversability, lengthSegment) ==
  IF i > 2
    THEN LET lengthPreviousPath == IF path.lengthPathSlot = "kept" THEN st.lengthPath ELSE <<0, 1>>
             lengthPath == RAdd(lengthPreviousPath, lengthSegment)
         IN  [st EXCEPT !.lengthPath = lengthPath,
                        !.result.traversability =
                           RDiv(RAdd(RMul(lengthSegment, traversability),
                                     RMul(lengthPreviousPath, st.result.traversability)),
                                lengthPath)]
    ELSE [st EXCEPT !.lengthPath = lengthSegment, !.result.traversability = traversability]

\* One pass of the loop over the poses of checkCircularFootprintPath (lines
\* 408-504) at pose i (1-based): done = "return" is one of its return true,
\* "throw" an exception, "next" the step to the next pose.
circularPose(m, path, i, st) ==
  LET arraySize == Len(path.poses)
      end == path.poses[i]
      start == IF i > 1 THEN path.poses[i - 1] ELSE end
      inc == checkInclination(m, start, end)
      single(qr) ==
        LET st1 == [st EXCEPT !.nFilters = @ + qr.nFilters]
        IN  IF qr.exc THEN [m |-> qr.m, st |-> st1, done |-> "throw"]
            ELSE IF ~qr.ret THEN [m |-> qr.m, st |-> st1, done |-> "return"]
            ELSE [m |-> qr.m, st |-> [st1 EXCEPT !.result.traversability = qr.traversability],
                  done |-> "next"]
      segment(seg) ==
        LET st1 == [st EXCEPT !.nFilters = @ + seg.st.nFilters]
        IN  IF seg.done = "throw" THEN [m |-> seg.m, st |-> st1, done |-> "throw"]
            ELSE IF seg.done = "return" \/ ~seg.st.pathIsTraversable
              THEN [m |-> seg.m, st |-> st1, done |-> "return"]
            ELSE [m |-> seg.m, done |-> "next",
                  st |-> fuseSegment(path, i, st1, RDiv(seg.st.traversabilitySum, <<seg.st.nLine, 1>>),
                                     <<Abs(end - start), 1>>)]
  IN  IF arraySize > 1 /\ i = 1 THEN [m |-> m, st |-> st, done |-> "next"]
      ELSE IF checkRobotInclination_ /\ inc.exc THEN [m |-> m, st |-> st, done |-> "throw"]
      ELSE IF checkRobotInclination_ /\ ~inc.ret THEN [m |-> m, st |-> st, done |-> "return"]
      ELSE IF arraySize = 1
        THEN single(isTraversableCircle(m, end, path.radius + offset,
                                        path.compute_untraversable_polygon, path.radius))
      ELSE segment(sampleLoop(m, path, LineIterator(getIndex(end), getIndex(start)), 1,
                              [pathIsTraversable |-> TRUE, traversabilityTemp |-> <<0, 1>>,
                               traversabilitySum |-> <<0, 1>>, nLine |-> 0, nFilters |-> 0]))

\* The loop over the poses (line 407) from pose i on, and the return after it
\* (lines 507-508).
RECURSIVE circularLoop(_, _, _, _)
circularLoop(m, path, i, st) ==
  IF i > Len(path.poses)
    THEN PathOut(m, [st.result EXCEPT !.is_safe = TRUE], TRUE, FALSE, st.nFilters, "circular")
  ELSE LET continue(r) ==
             IF r.done = "next" THEN circularLoop(r.m, path, i + 1, r.st)
             ELSE PathOut(r.m, r.st.result, r.done # "throw", r.done = "throw", r.st.nFilters, "circular")
       IN  continue(circularPose(m, path, i, st))

\* checkCircularFootprintPath, lines 392-509.
checkCircularFootprintPath(m, path) ==
  circularLoop(m, path, 1, [result |-> NewResult, lengthPath |-> <<0, 1>>, nFilters |-> 0])

\* Polygon::getArea of a polygon on the row: its span, one cell wide.
getArea(polygon) == IF polygon = {} THEN <<0, 1>> ELSE <<(SetMax(polygon) - SetMin(polygon)) * resolution, 1>>

\* The fusion of a successful segment of the polygonal variant (lines 616-625).
fuseArea(i, st, traversability, polygon, polygon1) ==
  IF i > 2
    THEN LET areaPrevious == st.result.area
             areaPolygon == RAdd(getArea(polygon), RMul(<<0 - 1, 1>>, getArea(polygon1)))
             area == RAdd(areaPrevious, areaPolygon)
         IN  [st EXCEPT !.result.area = area,
                        !.result.traversability =
                           RDiv(RAdd(RMul(areaPolygon, traversability),
                                     RMul(areaPrevious, st.result.traversability)),
                                area)]
    ELSE [st EXCEPT !.result.area = getArea(polygon), !.result.traversability = traversability]

\* The pass of the polygonal variant with the footprint query made before
\* the inclination check.
polygonalPoseQueriesFirst(m, path, i, st) ==
  LET arraySize == Len(path.poses)
      end == path.poses[i]
      start == IF i > 1 THEN path.poses[i - 1] ELSE end
      startToEnd == end - start
      footprint2 == {end + v : v \in path.footprint}
      widen == path.conservative /\ i > 1
      polygon1 == IF widen THEN st.polygon2 \cup {v - startToEnd : v \in footprint2} ELSE st.polygon2
      polygon2 == IF widen THEN footprint2 \cup {v + startToEnd : v \in st.polygon2} ELSE footprint2
      polygon == IF arraySize = 1 THEN polygon2 ELSE convexHull(polygon1 \cup polygon2)
      inc == checkInclination(m, start, end)
      st0 == [st EXCEPT !.polygon2 = polygon2]
      queried(qr) ==
        LET st1 == [st0 EXCEPT !.nFilters = @ + qr.nFilters]
        IN  IF qr.exc THEN [m |-> qr.m, st |-> st1, done |-> "throw"]
            ELSE IF checkRobotInclination_ /\ inc.exc THEN [m |-> qr.m, st |-> st1, done |-> "throw"]
            ELSE IF checkRobotInclination_ /\ ~inc.ret THEN [m |-> qr.m, st |-> st1, done |-> "return"]
            ELSE IF ~qr.ret THEN [m |-> qr.m, st |-> st1, done |-> "return"]
            ELSE IF arraySize = 1
              THEN [m |-> qr.m, done |-> "next",
                    st |-> [st1 EXCEPT !.result.traversability = qr.traversability,
                                       !.result.area = getArea(polygon)]]
            ELSE [m |-> qr.m, done |-> "next",
                  st |-> fuseArea(i, st1, qr.traversability, polygon, polygon1)]
  IN  IF arraySize > 1 /\ i = 1 THEN [m |-> m, st |-> st0, done |-> "next"]
      ELSE queried(isTraversablePolygon(m, polygon, path.compute_untraversable_polygon, {}))

\* One pass of the loop over the poses of checkPolygonalFootprintPath (lines
\* 530-628) at pose i (1-based); st.polygon2 is the footprint polygon of the
\* previous pose.
polygonalPose(m, path, i, st) ==
  LET arraySize == Len(path.poses)
      end == path.poses[i]
      start == IF i > 1 THEN path.poses[i - 1] ELSE end
      startToEnd == end - start
      footprint2 == {end + v : v \in path.footprint}
      widen == path.conservative /\ i > 1
      polygon1 == IF widen THEN st.polygon2 \cup {v - startToEnd : v \in footprint2} ELSE st.polygon2
      polygon2 == IF widen THEN footprint2 \cup {v + startToEnd : v \in st.polygon2} ELSE footprint2
      polygon == IF arraySize = 1 THEN polygon2 ELSE convexHull(polygon1 \cup polygon2)
      inc == checkInclination(m, start, end)
      st0 == [st EXCEPT !.polygon2 = polygon2]
      queried(qr) ==
        LET st1 == [st0 EXCEPT !.nFilters = @ + qr.nFilters]
        IN  IF qr.exc THEN [m |-> qr.m, st |-> st1, done |-> "throw"]
            ELSE IF ~qr.ret THEN [m |-> qr.m, st |-> st1, done |-> "return"]
            ELSE IF arraySize = 1
              THEN [m |-> qr.m, done |-> "next",
                    st |-> [st1 EXCEPT !.result.traversability = qr.traversability,
                                       !.result.area = getArea(polygon)]]
            ELSE [m |-> qr.m, done |-> "next",
                  st |-> fuseArea(i, st1, qr.traversability, polygon, polygon1)]
  IN  IF arraySize > 1 /\ i = 1 THEN [m |-> m, st |-> st0, done |-> "next"]
      ELSE IF checkRobotInclination_ /\ inc.exc THEN [m |-> m, st |-> st0, done |-> "throw"]
      ELSE IF checkRobotInclination_ /\ ~inc.ret THEN [m |-> m, st |-> st0, done |-> "return"]
      ELSE queried(isTraversablePolygon(m, polygon, path.compute_untraversable_polygon, {}))

RECURSIVE polygonalLoop(_, _, _, _)
polygonalLoop(m, path, i, st) ==
  IF i > Len(path.poses)
    THEN PathOut(m, [st.result EXCEPT !.is_safe = TRUE], TRUE, FALSE, st.nFilters, "polygonal")
  ELSE LET continue(r) ==
             IF r.done = "next" THEN polygonalLoop(r.m, path, i + 1, r.st)
             ELSE PathOut(r.m, r.st.result, r.done # "throw", r.done = "throw", r.st.nFilters, "polygonal")
       IN  continue(polygonalPose(m, path, i, st))

\* checkPolygonalFootprintPath, lines 511-631.
checkPolygonalFootprintPath(m, path) ==
  polygonalLoop(m, path, 1, [result |-> NewResult, polygon2 |-> {}, nFilters |-> 0])

\* checkFootprintPath without the check of the initialized flag.
checkFootprintPathUnguarded(m, path) ==
  IF Len(path.poses) = 0
    THEN PathOut(m, NewResult, FALSE, FALSE, 0, "none")
  ELSE IF path.footprint = {}
    THEN checkCircularFootprintPath(m, path)
  ELSE checkPolygonalFootprintPath(m, path)

\* checkFootprintPath without the check of the number of poses.
checkFootprintPathNoPoseCheck(m, path) ==
  IF ~traversabilityMapInitialized_
    THEN PathOut(m, NewResult, TRUE, FALSE, 0, "none")
  ELSE IF path.footprint = {}
    THEN checkCircularFootprintPath(m, path)
  ELSE checkPolygonalFootprintPath(m, path)

\* checkFootprintPath, lines 367-390.
checkFootprintPath(m, path) ==
  IF ~traversabilityMapInitialized_
    THEN PathOut(m, NewResult, TRUE, FALSE, 0, "none")
  ELSE IF Len(path.poses) = 0
    THEN PathOut(m, NewResult, FALSE, FALSE, 0, "none")
  ELSE IF path.footprint = {}
    THEN checkCircularFootprintPath(m, path)
  ELSE checkPolygonalFootprintPath(m, path)

\* ------------------------------------------------------------- inputs
\* The terrains the model is run on.  A terrain fixes the base layers the
\* filter chain derives (slope, step, roughness, traversability), the
\* elevation and the robot-slope layer.
\*   1  flat and traversable (roughness 0 on cell 1 alone, which passes)
\*   2  slope 0 everywhere (the inner cells fail the slope check)
\*   3  roughness 0 on cells 1..4 (these fail the roughness check)
\*   4  a step down after cell 3 that never closes (cells 3 and 4 fail)
\*   5  admissible everywhere; traversability invalid on cell 1, zero on
\*      cells 2..4, one beyond
Scenarios == 1 .. 5

BaseLayers(scen) ==
  [traversability |->
     [c \in 1 .. GridCols |->
        CASE scen = 1 -> 800
          [] scen = 2 -> 600
          [] scen = 3 -> One
          [] scen = 4 -> IF c = 1 THEN 800 ELSE IF c = 2 THEN 500 ELSE 0
          [] OTHER    -> IF c = 1 THEN NaN ELSE IF c <= 4 THEN 0 ELSE One],
   traversability_slope |-> [c \in 1 .. GridCols |-> IF scen = 2 THEN 0 ELSE One],
   traversability_step |-> [c \in 1 .. GridCols |-> IF scen = 4 /\ c \in {3, 4} THEN 0 ELSE One],
   traversability_roughness |-> [c \in 1 .. GridCols |->
                                  IF (scen = 3 /\ c <= 4) \/ (scen = 1 /\ c = 1) THEN 0 ELSE One],
   elevation |-> [c \in 1 .. GridCols |-> IF scen = 4 /\ c >= 4 THEN 0 ELSE 20],
   robot_slope |-> [c \in 1 .. GridCols |->
                     IF scen = 2 /\ c = 3 THEN 0 ELSE IF scen = 2 /\ c = 1 THEN NaN ELSE One]]

\* The terrains the maps set while the node starts up show.
StartupScenarios == {1, 4}

BaseMap(scen) == [size |-> GridCols, layers |-> BaseLayers(scen)]

FootprintLayers == {"step_footprint", "slope_footprint", "roughness_footprint", "traversability_footprint"}

\* The layers of a grid restricted to / extended by the layers of another.
WithLayersOf(m, other, names) ==
  [m EXCEPT !.layers = [l \in (DOMAIN m.layers) \cup (names \cap DOMAIN other.layers) |->
                          IF l \in names \cap DOMAIN other.layers THEN other.layers[l] ELSE m.layers[l]]]

WithoutLayer(m, layer) == [m EXCEPT !.layers = [l \in (DOMAIN m.layers) \ {layer} |-> m.layers[l]]]

RECURSIVE AddLayers(_, _)
AddLayers(m, names) ==
  IF names = {} THEN m
  ELSE LET l == CHOOSE x \in names : TRUE IN AddLayers(AddLayer(m, l), names \ {l})

\* A grid-map message: its frame, its vertical offset and its grid.
\* kind "full" carries the base layers and the four footprint layers, "bare"
\* the base layers only, "short" lacks a required layer.  caches "stored"
\* is the published map sent back with its base layers replaced: the
\* footprint layers hold what the stored map holds.
TraversabilityMessages ==
  {msg \in [frame : {mapFrameId_, "odom"}, z : {1}, kind : {"full", "bare", "short"},
            scen : StartupScenarios, caches : {"invalid", "stored"}] :
     msg.caches = "stored" => msg.kind = "full"}

\* The stored map fetched, its base layers replaced, and sent back.
RoundTripMessages ==
  [frame : {mapFrameId_}, z : {1}, kind : {"full"}, scen : {1}, caches : {"stored"}]

fromMessage(msg, stored) ==
  LET base == BaseMap(msg.scen)
  IN  CASE msg.kind = "short" -> WithoutLayer(base, roughnessType_)
        [] msg.kind = "bare"  -> base
        [] OTHER -> IF msg.caches = "stored" /\ stored.size = base.size
                      THEN WithLayersOf(AddLayers(base, FootprintLayers), stored, FootprintLayers)
                      ELSE AddLayers(base, FootprintLayers)

\* An elevation message: the grid is the terrain it shows and its layers.
ElevationMessages ==
  [frame : {mapFrameId_, "odom"}, z : {1}, kind : {"full", "short"}, scen : StartupScenarios]

elevationMapLayers_ == {"elevation", "upper_bound", "lower_bound"}

traversabilityMapLayers_ == {traversabilityType_, slopeType_, stepType_, roughnessType_}

elevationFromMessage(msg) ==
  [scen |-> msg.scen,
   layers |-> IF msg.kind = "short" THEN {"elevation", "upper_bound"} ELSE elevationMapLayers_]

\* The positions a query or a pose is given at: outside the grid, the first
\* cell and an inner cell.
Positions == {getPosition(0), getPosition(1), getPosition(3)}

\* The poses of a path: none, one, a long segment, a turn on the spot before
\* a segment, and segments going back and forth between two cells.
Alternating(a, b, n) == [i \in 1 .. n |-> IF i % 2 = 1 THEN a ELSE b]

PoseSequences ==
  {<<>>} \cup {<<p>> : p \in Positions} \cup {<<getPosition(1), getPosition(GridCols)>>}
    \cup {<<getPosition(1), getPosition(1), getPosition(3)>>}
    \cup {Alternating(getPosition(1), getPosition(3), n) : n \in 2 .. MaxPoses}
    \cup {Alternating(getPosition(3), getPosition(1), n) : n \in 2 .. MaxPoses}

\* The footprint and the flags of a path: an empty footprint selects the
\* circular variant.  lengthPathSlot is what the read of the uninitialized
\* lengthPath of line 493 finds.  Flags are varied one at a time.
PathShapes ==
  {f \in [radius : {0, 10}, footprint : {{}, {0 - 6, 6}}, conservative : BOOLEAN,
          compute_untraversable_polygon : BOOLEAN, publishPolygons : BOOLEAN,
          lengthPathSlot : {"kept", "zero"}] :
     /\ f.footprint # {} => f.radius = 0 /\ ~f.publishPolygons /\ f.lengthPathSlot = "kept"
     /\ f.conservative => f.footprint # {} /\ ~f.compute_untraversable_polygon
     /\ f.publishPolygons => ~f.compute_untraversable_polygon /\ f.radius = 0 /\ f.lengthPathSlot = "kept"
     /\ f.radius # 0 => ~f.compute_untraversable_polygon /\ f.lengthPathSlot = "kept"
     /\ f.lengthPathSlot = "zero" => ~f.compute_untraversable_polygon}

Path(ps, f) ==
  [poses |-> ps, radius |-> f.radius, footprint |-> f.footprint, conservative |-> f.conservative,
   compute_untraversable_polygon |-> f.compute_untraversable_polygon,
   publishPolygons |-> f.publishPolygons, lengthPathSlot |-> f.lengthPathSlot]

\* Flags that do not reach the length of the path are not varied.
RelevantPath(path) ==
  /\ (path.conservative \/ path.publishPolygons) => Len(path.poses) > 1
  /\ path.lengthPathSlot = "zero" => Len(path.poses) > 2

Paths == {path \in {Path(ps, f) : ps \in PoseSequences, f \in PathShapes} : RelevantPath(path)}

\* The paths checked while the node starts up.
StartupPaths ==
  {path \in Paths :
     /\ Len(path.poses) <= 2
     /\ \A i \in 1 .. Len(path.poses) : path.poses[i] = getPosition(2 * i - 1)
     /\ ~path.conservative /\ ~path.publishPolygons /\ path.radius = 0
     /\ ~path.compute_untraversable_polygon}

\* The disc queries: (radiusMax, radiusMin) as the path check passes them
\* (radius + offset, radius).
DiscQueries ==
  {q \in [center : Positions, radiusMax : {15, 25}, radiusMin : {0, 10}, computeUntraversablePolygon : BOOLEAN] :
     q.radiusMax = q.radiusMin + offset}

\* The polygon queries: the footprint around a position, and the whole row.
PolygonQueries ==
  {[polygon |-> poly, computeUntraversablePolygon |-> cup] :
     poly \in {{p - 6, p + 6} : p \in Positions} \cup {{getPosition(1), getPosition(GridCols)}},
     cup \in BOOLEAN}

\* ---------------------------------------------------------- operations
\* A returned call: the operation, its argument, the boolean returned,
\* whether an exception left it, and what a query or a path check gave.
Call(op, arg, ret) ==
  [op |-> op, arg |-> arg, ret |-> ret, exc |-> FALSE, result |-> NewResult,
   traversability |-> <<0, 1>>, polygon |-> {}, nFilters |-> 0, variant |-> "none"]

NoCall == Call("none", [none |-> TRUE], FALSE)

QueryOps == {"isTraversableCircle", "isTraversablePolygon", "checkFootprintPath"}

\* setElevationMap storing the map before it checks the layers.
setElevationMapStoresFirst(msg) ==
  IF mapFrameId_ # msg.frame
    THEN [map |-> elevationMap_, initialized |-> elevationMapInitialized_, z |-> zPosition_, ret |-> FALSE]
  ELSE IF ~(elevationMapLayers_ \subseteq elevationFromMessage(msg).layers)
    THEN [map |-> elevationFromMessage(msg), initialized |-> elevationMapInitialized_, z |-> msg.z,
          ret |-> FALSE]
  ELSE [map |-> elevationFromMessage(msg), initialized |-> TRUE, z |-> msg.z, ret |-> TRUE]

\* setElevationMap, lines 137-156: what the call leaves in the elevation map,
\* its flag and zPosition_, and what it returns.
setElevationMap(msg) ==
  IF mapFrameId_ # msg.frame
    THEN [map |-> elevationMap_, initialized |-> elevationMapInitialized_, z |-> zPosition_, ret |-> FALSE]
  ELSE LET elevationMap == elevationFromMessage(msg)
       IN  IF ~(elevationMapLayers_ \subseteq elevationMap.layers)
             THEN [map |-> elevationMap_, initialized |-> elevationMapInitialized_, z |-> msg.z, ret |-> FALSE]
             ELSE [map |-> elevationMap, initialized |-> TRUE, z |-> msg.z, ret |-> TRUE]

\* setTraversabilityMap, lines 158-172.
setTraversabilityMap(msg) ==
  LET traversabilityMap == fromMessage(msg, traversabilityMap_)
  IN  IF ~(traversabilityMapLayers_ \subseteq DOMAIN traversabilityMap.layers)
        THEN [map |-> traversabilityMap_, initialized |-> traversabilityMapInitialized_,
              z |-> msg.z, ret |-> FALSE]
        ELSE [map |-> traversabilityMap, initialized |-> TRUE, z |-> msg.z, ret |-> TRUE]

\* resetTraversabilityFootprintLayers, lines 228-233.
RECURSIVE ClearLayers(_, _)
ClearLayers(m, names) ==
  IF names = {} THEN m
  ELSE LET l == CHOOSE x \in names : TRUE
       IN  ClearLayers(IF Has(m, l) THEN ClearLayer(m, l) ELSE m, names \ {l})

resetTraversabilityFootprintLayers(m) ==
  ClearLayers(m, {"step_footprint", "slope_footprint", "traversability_footprint"})

\* The base layers were replaced: what the history of the caches becomes.
EpochAfterChange == IF cacheEpoch \in {"reset", "changed"} THEN "changed" ELSE "none"

\* computeTraversability leaving the initialized flag alone when the chain fails.
computeFilterKeepsFlag(chainOk) ==
  IF elevationMapInitialized_ /\ chainOk
    THEN [initialized |-> TRUE, ret |-> TRUE,
          copy |-> AddLayers(BaseMap(elevationMap_.scen),
                             {"step_footprint", "slope_footprint", "traversability_footprint"}
                               \cup (IF checkForRoughness_ THEN {"roughness_footprint"} ELSE {}))]
    ELSE [initialized |-> traversabilityMapInitialized_, ret |-> FALSE, copy |-> EmptyMap]

\* computeTraversability, lines 235-265: the copies, the filter chain and the
\* footprint layers added to the local copy.  The chain is an external
\* collaborator: it fails or derives the base layers of the terrain the
\* elevation map shows; chainOk is its outcome.
computeFilter(chainOk) ==
  IF elevationMapInitialized_ /\ chainOk
    THEN [initialized |-> TRUE, ret |-> TRUE,
          copy |-> AddLayers(BaseMap(elevationMap_.scen),
                             {"step_footprint", "slope_footprint", "traversability_footprint"}
                               \cup (IF checkForRoughness_ THEN {"roughness_footprint"} ELSE {}))]
    ELSE [initialized |-> FALSE, ret |-> FALSE, copy |-> EmptyMap]

\* downsamplingMap and assignTerrainCost, lines 272-277 (the sub-map is the whole row).
assignTerrainCost(m) == AddLayers(m, {"terrain_traversability", "color"})

\* setDefaultTraversabilityUnknownRegions / boundTraversabilityValue, lines 996-1016.
\* Both comparisons are false for NaN, which is returned as it is.
boundTraversabilityValue(traversabilityValue) ==
  IF traversabilityValue # NaN /\ traversabilityValue > traversabilityMaxValue
    THEN traversabilityMaxValue
  ELSE IF traversabilityValue # NaN /\ traversabilityValue < traversabilityMinValue
    THEN traversabilityMinValue
  ELSE traversabilityValue

\* ------------------------------------------------------------ threads
\* The three grid mutexes (boost::recursive_mutex) and their owner.
Mutexes == {"elevationMapMutex_", "traversabilityMapMutex_", "terrainMapMutex_"}

Free == [x \in Mutexes |-> "none"]

\* No thread is inside a query; no reader is at work.
NoScan == [pc |-> "idle"]

NoReader == [pc |-> "idle", copy |-> EmptyMap]

\* The threads that call the locking operations (the callbacks of the node),
\* and the frame of a thread that is inside none: the operation, its
\* lock and unlock steps, the next step, how often it holds each mutex.
NThreads == 2

Threads == 1 .. NThreads

NoFrame == [op |-> "none", steps |-> <<>>, i |-> 1, held |-> [x \in Mutexes |-> 0]]

NoThreads == [t \in Threads |-> NoFrame]

\* ------------------------------------------------------------- actions
Idle == last.op = "none"

SetElevationMap ==
  /\ Idle
  /\ \E msg \in ElevationMessages :
       LET out == setElevationMap(msg)
       IN  /\ elevationMap_' = out.map
           /\ elevationMapInitialized_' = out.initialized
           /\ zPosition_' = out.z
           /\ last' = Call("setElevationMap", msg, out.ret)
  /\ UNCHANGED <<traversabilityDefaultReadAtInit_, mutex, scan, reader>>
  /\ UNCHANGED <<traversabilityMap_, traversabilityMapInitialized_, terrainMap_, traversabilityDefault_,
                 checkForRoughness_, checkRobotInclination_, pc, traversabilityMapCopy, cacheEpoch, setSinceCopy, threads>>

SetTraversabilityMap(messages) ==
  /\ Idle
  /\ \E msg \in messages :
       LET out == setTraversabilityMap(msg)
       IN  /\ traversabilityMap_' = out.map
           /\ traversabilityMapInitialized_' = out.initialized
           /\ zPosition_' = out.z
           /\ cacheEpoch' = IF out.ret THEN EpochAfterChange ELSE cacheEpoch
           /\ setSinceCopy' = (setSinceCopy \/ (out.ret /\ pc = "filtered"))
           /\ UNCHANGED threads
           /\ last' = Call("setTraversabilityMap", msg, out.ret)
  /\ UNCHANGED <<traversabilityDefaultReadAtInit_, mutex, scan, reader>>
  /\ UNCHANGED <<elevationMap_, elevationMapInitialized_, terrainMap_, traversabilityDefault_,
                 checkForRoughness_, checkRobotInclination_, pc, traversabilityMapCopy>>

ResetTraversabilityFootprintLayers ==
  /\ Idle
  /\ traversabilityMap_' = resetTraversabilityFootprintLayers(traversabilityMap_)
  /\ cacheEpoch' = "reset"
  /\ UNCHANGED <<setSinceCopy, threads>>
  /\ last' = Call("resetTraversabilityFootprintLayers", [none |-> TRUE], TRUE)
  /\ UNCHANGED <<traversabilityDefaultReadAtInit_, mutex, scan, reader>>
  /\ UNCHANGED <<elevationMap_, elevationMapInitialized_, traversabilityMapInitialized_, terrainMap_,
                 zPosition_, traversabilityDefault_, checkForRoughness_, checkRobotInclination_, pc,
                 traversabilityMapCopy>>

\* computeTraversability up to the write-back (lines 235-265).
ComputeFilter ==
  /\ Idle
  /\ pc = "idle"
  /\ \E chainOk \in BOOLEAN :
       LET out == computeFilter(chainOk)
       IN  /\ traversabilityMapInitialized_' = out.initialized
           /\ traversabilityMapCopy' = out.copy
           /\ pc' = IF out.ret THEN "filtered" ELSE "idle"
           /\ last' = IF out.ret THEN last ELSE Call("computeTraversability", [chainOk |-> chainOk], FALSE)
  /\ UNCHANGED <<traversabilityDefaultReadAtInit_, mutex, scan, reader>>
  /\ UNCHANGED <<elevationMap_, elevationMapInitialized_, traversabilityMap_, terrainMap_, zPosition_,
                 traversabilityDefault_, checkForRoughness_, checkRobotInclination_, cacheEpoch, setSinceCopy, threads>>

\* The write-back under the lock (lines 267-269).
ComputeWriteBack ==
  /\ Idle
  /\ pc = "filtered"
  /\ traversabilityMap_' = traversabilityMapCopy
  /\ cacheEpoch' = EpochAfterChange
  /\ setSinceCopy' = FALSE
  /\ UNCHANGED threads
  /\ pc' = "written"
  /\ UNCHANGED <<traversabilityDefaultReadAtInit_, mutex, scan, reader>>
  /\ UNCHANGED <<elevationMap_, elevationMapInitialized_, traversabilityMapInitialized_, terrainMap_,
                 zPosition_, traversabilityDefault_, checkForRoughness_, checkRobotInclination_,
                 traversabilityMapCopy, last>>

\* The terrain map and the return (lines 271-283).
ComputeTerrain ==
  /\ Idle
  /\ pc = "written"
  /\ terrainMap_' = assignTerrainCost(traversabilityMapCopy)
  /\ traversabilityMapCopy' = EmptyMap
  /\ pc' = "idle"
  /\ last' = Call("computeTraversability", [chainOk |-> TRUE], TRUE)
  /\ UNCHANGED <<traversabilityDefaultReadAtInit_, mutex, scan, reader>>
  /\ UNCHANGED <<elevationMap_, elevationMapInitialized_, traversabilityMap_, traversabilityMapInitialized_,
                 zPosition_, traversabilityDefault_, checkForRoughness_, checkRobotInclination_, cacheEpoch, setSinceCopy, threads>>

CheckFootprintPath(paths) ==
  /\ Idle
  /\ \E path \in paths :
       LET returned(out) ==
             /\ traversabilityMap_' = out.m
             /\ last' = [Call("checkFootprintPath", path, out.ret) EXCEPT
                           !.exc = out.exc, !.result = out.result, !.nFilters = out.nFilters,
                           !.variant = out.variant]
       IN  returned(checkFootprintPath(traversabilityMap_, path))
  /\ UNCHANGED <<traversabilityDefaultReadAtInit_, mutex, scan, reader>>
  /\ UNCHANGED <<elevationMap_, elevationMapInitialized_, traversabilityMapInitialized_, terrainMap_,
                 zPosition_, traversabilityDefault_, checkForRoughness_, checkRobotInclination_, pc,
                 traversabilityMapCopy, cacheEpoch, setSinceCopy, threads>>

IsTraversableCircle ==
  /\ Idle
  /\ \E q \in DiscQueries :
       LET returned(out) ==
             /\ traversabilityMap_' = out.m
             /\ last' = [Call("isTraversableCircle", q, out.ret) EXCEPT
                           !.exc = out.exc, !.traversability = out.traversability,
                           !.polygon = out.polygon, !.nFilters = out.nFilters]
       IN  returned(isTraversableCircle(traversabilityMap_, q.center, q.radiusMax,
                                        q.computeUntraversablePolygon, q.radiusMin))
  /\ UNCHANGED <<traversabilityDefaultReadAtInit_, mutex, scan, reader>>
  /\ UNCHANGED <<elevationMap_, elevationMapInitialized_, traversabilityMapInitialized_, terrainMap_,
                 zPosition_, traversabilityDefault_, checkForRoughness_, checkRobotInclination_, pc,
                 traversabilityMapCopy, cacheEpoch, setSinceCopy, threads>>

IsTraversablePolygon ==
  /\ Idle
  /\ \E q \in PolygonQueries :
       LET returned(out) ==
             /\ traversabilityMap_' = out.m
             /\ last' = [Call("isTraversablePolygon", q, out.ret) EXCEPT
                           !.exc = out.exc, !.traversability = out.traversability,
                           !.polygon = out.polygon, !.nFilters = out.nFilters]
       IN  returned(isTraversablePolygon(traversabilityMap_, q.polygon, q.computeUntraversablePolygon, {}))
  /\ UNCHANGED <<traversabilityDefaultReadAtInit_, mutex, scan, reader>>
  /\ UNCHANGED <<elevationMap_, elevationMapInitialized_, traversabilityMapInitialized_, terrainMap_,
                 zPosition_, traversabilityDefault_, checkForRoughness_, checkRobotInclination_, pc,
                 traversabilityMapCopy, cacheEpoch, setSinceCopy, threads>>

\* The caller takes the returned value; a query has then read the caches.
Return ==
  /\ ~Idle
  /\ last' = NoCall
  /\ cacheEpoch' = IF last.op \in QueryOps THEN "none" ELSE cacheEpoch
  /\ UNCHANGED <<setSinceCopy, threads>>
  /\ UNCHANGED <<traversabilityDefaultReadAtInit_, mutex, scan, reader>>
  /\ UNCHANGED <<elevationMap_, elevationMapInitialized_, traversabilityMap_, traversabilityMapInitialized_,
                 terrainMap_, zPosition_, traversabilityDefault_, checkForRoughness_,
                 checkRobotInclination_, pc, traversabilityMapCopy>>

\* The state after construction (lines 41-61, 110-117): no map set, the
\* configuration read from the parameters.
Init ==
  /\ elevationMap_ = [scen |-> 0, layers |-> {}]
  /\ elevationMapInitialized_ = FALSE
  /\ traversabilityMap_ = EmptyMap
  /\ traversabilityMapInitialized_ = FALSE
  /\ terrainMap_ = EmptyMap
  /\ zPosition_ = 0
  /\ traversabilityDefault_ = boundTraversabilityValue(600)
  /\ checkForRoughness_ \in BOOLEAN
  /\ checkRobotInclination_ = FALSE
  /\ pc = "idle"
  /\ traversabilityMapCopy = EmptyMap
  /\ last = NoCall
  /\ cacheEpoch = "none"
  /\ setSinceCopy = FALSE
  /\ threads = NoThreads
  /\ traversabilityDefaultReadAtInit_ = traversabilityDefault_
  /\ mutex = Free
  /\ scan = NoScan
  /\ reader = NoReader

\* The node starting up: maps are set, computed and reset, paths are checked.
Next ==
  \/ SetElevationMap
  \/ SetTraversabilityMap(TraversabilityMessages)
  \/ ResetTraversabilityFootprintLayers
  \/ ComputeFilter
  \/ ComputeWriteBack
  \/ ComputeTerrain
  \/ CheckFootprintPath(StartupPaths)
  \/ Return

Spec == Init /\ [][Next]_vars

\* The terrains and configurations the queries are checked on:
\* (terrain, checkForRoughness_, checkRobotInclination_, traversabilityDefault_).
Worlds ==
  {<<1, FALSE, FALSE, 600>>, <<2, FALSE, TRUE, 600>>, <<3, TRUE, FALSE, 600>>,
   <<4, FALSE, FALSE, 600>>, <<5, FALSE, FALSE, 600>>, <<5, FALSE, FALSE, 0>>}

\* The state after setElevationMap and computeTraversability have succeeded
\* on one of the terrains.
InitQuery ==
  \E w \in Worlds :
    /\ checkForRoughness_ = w[2]
    /\ checkRobotInclination_ = w[3]
    /\ traversabilityDefault_ = boundTraversabilityValue(w[4])
    /\ elevationMap_ = [scen |-> w[1], layers |-> elevationMapLayers_]
    /\ elevationMapInitialized_ = TRUE
    /\ traversabilityMap_ =
         AddLayers(BaseMap(w[1]), {"step_footprint", "slope_footprint", "traversability_footprint"}
                                    \cup (IF w[2] THEN {"roughness_footprint"} ELSE {}))
    /\ traversabilityMapInitialized_ = TRUE
    /\ terrainMap_ = assignTerrainCost(traversabilityMap_)
    /\ zPosition_ = 1
    /\ pc = "idle"
    /\ traversabilityMapCopy = EmptyMap
    /\ last = NoCall
    /\ cacheEpoch = "none"
    /\ setSinceCopy = FALSE
    /\ threads = NoThreads
    /\ traversabilityDefaultReadAtInit_ = traversabilityDefault_
    /\ mutex = Free
    /\ scan = NoScan
    /\ reader = NoReader

\* The queries on a computed map, the cache reset and the replacement of the
\* base layers.
NextQuery ==
  \/ IsTraversableCircle
  \/ IsTraversablePolygon
  \/ CheckFootprintPath(Paths)
  \/ ResetTraversabilityFootprintLayers
  \/ SetTraversabilityMap(RoundTripMessages)
  \/ Return

SpecQuery == InitQuery /\ [][NextQuery]_vars

\* --------------------------------------------- the queries, step by step
\* The arguments and the locals of a disc query (lines 703-705, 718-733) and
\* of a polygon query (lines 641-644), as the loops start.
ScanQuery(q) ==
  [indexCenter |-> getIndex(q.center), radiusMax |-> q.radiusMax, radiusMin |-> q.radiusMin,
   computeUntraversablePolygon |-> q.computeUntraversablePolygon]

SpiralStart ==
  [nCells |-> 0, traversability |-> <<0, 1>>, circleIsTraversable |-> TRUE,
   traversableRadiusBiggerMinRadius |-> FALSE, untraversablePositions |-> {}, nFilters |-> 0]

PolygonStart ==
  [nCells |-> 0, traversability |-> <<0, 1>>, pathIsTraversable |-> TRUE,
   untraversablePositions |-> {}, nFilters |-> 0]

\* The centre is inside the grid and its cache entry is invalid: the disc
\* query searches the spiral (lines 709, 720, 726).
Searches(m, center) ==
  isInside(m, center) /\ Has(m, "traversability_footprint")
    /\ ~IsValid(m, "traversability_footprint", getIndex(center))

TraversabilityLock == "traversabilityMapMutex_"

\* isTraversable(center) takes the traversability mutex (line 708) and
\* reaches its spiral loop, or the branch that needs none.
LockCircleQuery ==
  /\ Idle
  /\ scan.pc = "idle"
  /\ mutex[TraversabilityLock] = "none"
  /\ mutex' = [mutex EXCEPT ![TraversabilityLock] = "query"]
  /\ \E q \in DiscQueries :
       scan' = [pc |-> IF Searches(traversabilityMap_, q.center) THEN "loop" ELSE "known",
                kind |-> "circle", q |-> q, i |-> 1, st |-> SpiralStart,
                cells |-> IF Searches(traversabilityMap_, q.center)
                            THEN SpiralIterator(traversabilityMap_, q.center, q.radiusMax) ELSE <<>>]
  /\ UNCHANGED <<elevationMap_, elevationMapInitialized_, traversabilityMap_, traversabilityMapInitialized_,
                 terrainMap_, zPosition_, traversabilityDefault_, checkForRoughness_,
                 checkRobotInclination_, pc, traversabilityMapCopy, last, cacheEpoch, setSinceCopy, threads,
                 traversabilityDefaultReadAtInit_, reader>>

\* isTraversable(polygon) takes the traversability mutex (line 646) and
\* reaches its loop over the interior cells.
LockPolygonQuery ==
  /\ Idle
  /\ scan.pc = "idle"
  /\ mutex[TraversabilityLock] = "none"
  /\ mutex' = [mutex EXCEPT ![TraversabilityLock] = "query"]
  /\ \E q \in PolygonQueries :
       scan' = [pc |-> "loop", kind |-> "polygon", q |-> q, i |-> 1, st |-> PolygonStart,
                cells |-> SortedSeq(PolygonCells(traversabilityMap_, q.polygon))]
  /\ UNCHANGED <<elevationMap_, elevationMapInitialized_, traversabilityMap_, traversabilityMapInitialized_,
                 terrainMap_, zPosition_, traversabilityDefault_, checkForRoughness_,
                 checkRobotInclination_, pc, traversabilityMapCopy, last, cacheEpoch, setSinceCopy, threads,
                 traversabilityDefaultReadAtInit_, reader>>

\* Where the query is after a pass of a loop body.
ScanAfter(r) ==
  [scan EXCEPT !.st = r.st, !.i = @ + 1, !.pc = IF r.done = "next" THEN "loop" ELSE r.done]

\* One pass of the spiral loop (lines 734-773) on the shared grid, or its end.
ScanSpiralCell ==
  /\ scan.pc = "loop"
  /\ scan.kind = "circle"
  /\ IF scan.i > Len(scan.cells) \/ scan.st.traversableRadiusBiggerMinRadius
       THEN scan' = [scan EXCEPT !.pc = "end"] /\ UNCHANGED traversabilityMap_
       ELSE LET pass(r) == traversabilityMap_' = r.m /\ scan' = ScanAfter(r)
            IN  pass(spiralCell(ScanQuery(scan.q), scan.cells[scan.i][1], scan.cells[scan.i][2],
                                isTraversableForFilters(traversabilityMap_, scan.cells[scan.i][1]),
                                scan.st))
  /\ UNCHANGED <<elevationMap_, elevationMapInitialized_, traversabilityMapInitialized_,
                 terrainMap_, zPosition_, traversabilityDefault_, checkForRoughness_,
                 checkRobotInclination_, pc, traversabilityMapCopy, last, cacheEpoch, setSinceCopy, threads,
                 traversabilityDefaultReadAtInit_, mutex, reader>>

\* One pass of the loop of the polygon query (lines 647-667), or its end.
ScanPolygonCell ==
  /\ scan.pc = "loop"
  /\ scan.kind = "polygon"
  /\ IF scan.i > Len(scan.cells)
       THEN scan' = [scan EXCEPT !.pc = "end"] /\ UNCHANGED traversabilityMap_
       ELSE LET pass(r) == traversabilityMap_' = r.m /\ scan' = ScanAfter(r)
            IN  pass(polygonCell(scan.q.computeUntraversablePolygon, scan.cells[scan.i],
                                 isTraversableForFilters(traversabilityMap_, scan.cells[scan.i]),
                                 scan.st))
  /\ UNCHANGED <<elevationMap_, elevationMapInitialized_, traversabilityMapInitialized_,
                 terrainMap_, zPosition_, traversabilityDefault_, checkForRoughness_,
                 checkRobotInclination_, pc, traversabilityMapCopy, last, cacheEpoch, setSinceCopy, threads,
                 traversabilityDefaultReadAtInit_, mutex, reader>>

\* What the query returns from where it is.
ScanResult ==
  IF scan.kind = "polygon"
    THEN polygonResult(scan.q.computeUntraversablePolygon, {},
                       [m |-> traversabilityMap_, st |-> scan.st, done |-> scan.pc])
  ELSE IF scan.pc = "known"
    THEN isTraversableCircle(traversabilityMap_, scan.q.center, scan.q.radiusMax,
                             scan.q.computeUntraversablePolygon, scan.q.radiusMin)
  ELSE circleResult(ScanQuery(scan.q), [m |-> traversabilityMap_, st |-> scan.st, done |-> scan.pc])

\* The query leaves its loop, gives the mutex back (lines 668, 785, or the
\* scoped lock going out of scope at lines 657, 763) and returns.
UnlockQuery ==
  /\ scan.pc \in {"known", "end", "return", "throw"}
  /\ LET returned(out) ==
           /\ traversabilityMap_' = out.m
           /\ last' = [Call(IF scan.kind = "circle" THEN "isTraversableCircle" ELSE "isTraversablePolygon",
                            scan.q, out.ret) EXCEPT
                         !.exc = out.exc, !.traversability = out.traversability,
                         !.polygon = out.polygon, !.nFilters = out.nFilters]
     IN  returned(ScanResult)
  /\ mutex' = [mutex EXCEPT ![TraversabilityLock] = "none"]
  /\ scan' = NoScan
  /\ UNCHANGED <<elevationMap_, elevationMapInitialized_, traversabilityMapInitialized_,
                 terrainMap_, zPosition_, traversabilityDefault_, checkForRoughness_,
                 checkRobotInclination_, pc, traversabilityMapCopy, cacheEpoch, setSinceCopy, threads,
                 traversabilityDefaultReadAtInit_, reader>>

\* The footprint polygon (footprint/footprint_polygon, lines 92-105) on the row.
footprintPoints_ == {0 - 6, 14}

\* The footprint at a position, turned by the yaw in degrees (lines 320-334).
footprintPolygon(position, footprintYaw) ==
  {position + (IF footprintYaw = 180 THEN 0 - point ELSE point) : point \in footprintPoints_}

\* Lines 337-344: the score of the polygon query stored in the cell of the
\* layer, 0.0 when the query answered false; an exception of the query
\* leaves the layer as it is.
storeFootprint(layer, index, q) ==
  IF q.exc THEN [m |-> q.m, exc |-> TRUE]
  ELSE [m |-> SetAt(q.m, layer, index, IF q.ret THEN ToFloat(q.traversability) ELSE 0), exc |-> FALSE]

\* One pass of the loop of traversabilityFootprint(footprintYaw), lines
\* 307-345: the cell of traversability_x, then that of traversability_rot.
footprintCell(m, index, footprintYaw) ==
  LET rot(x) ==
        IF x.exc THEN x
        ELSE storeFootprint("traversability_rot", index,
                            isTraversablePolygon(x.m, footprintPolygon(getPosition(index), footprintYaw),
                                                 FALSE, {}))
  IN  rot(storeFootprint("traversability_x", index,
                         isTraversablePolygon(m, footprintPolygon(getPosition(index), 0), FALSE, {})))

\* traversabilityFootprint(footprintYaw) up to its loop (lines 286-294): it
\* returns false on a map that is not initialized, else takes the
\* traversability mutex and adds the two layers.
LockFootprint ==
  /\ Idle
  /\ scan.pc = "idle"
  /\ \E footprintYaw \in {0, 180} :
       IF ~traversabilityMapInitialized_
         THEN /\ last' = Call("traversabilityFootprint", [footprintYaw |-> footprintYaw], FALSE)
              /\ UNCHANGED <<traversabilityMap_, mutex, scan>>
         ELSE /\ mutex[TraversabilityLock] = "none"
              /\ mutex' = [mutex EXCEPT ![TraversabilityLock] = "footprint"]
              /\ traversabilityMap_' =
                   AddLayer(AddLayer(traversabilityMap_, "traversability_x"), "traversability_rot")
              /\ scan' = [pc |-> "fill", kind |-> "footprint", footprintYaw |-> footprintYaw, i |-> 1]
              /\ UNCHANGED last
  /\ UNCHANGED <<elevationMap_, elevationMapInitialized_, traversabilityMapInitialized_,
                 terrainMap_, zPosition_, traversabilityDefault_, checkForRoughness_,
                 checkRobotInclination_, pc, traversabilityMapCopy, cacheEpoch, setSinceCopy, threads,
                 traversabilityDefaultReadAtInit_, reader>>

\* One pass of the loop over the cells of the shared grid (lines 307-345),
\* or its end.
FillFootprintCell ==
  /\ scan.pc = "fill"
  /\ IF scan.i > traversabilityMap_.size
       THEN scan' = [scan EXCEPT !.pc = "filled"] /\ UNCHANGED traversabilityMap_
       ELSE LET pass(r) ==
                  /\ traversabilityMap_' = r.m
                  /\ scan' = [scan EXCEPT !.i = @ + 1, !.pc = IF r.exc THEN "failed" ELSE "fill"]
            IN  pass(footprintCell(traversabilityMap_, scan.i, scan.footprintYaw))
  /\ UNCHANGED <<elevationMap_, elevationMapInitialized_, traversabilityMapInitialized_,
                 terrainMap_, zPosition_, traversabilityDefault_, checkForRoughness_,
                 checkRobotInclination_, pc, traversabilityMapCopy, last, cacheEpoch, setSinceCopy, threads,
                 traversabilityDefaultReadAtInit_, mutex, reader>>

\* The mutex is given back (line 346, or the scoped lock unwinding) and
\* the call returns; the map it publishes (line 348) is the reader's copy.
UnlockFootprint ==
  /\ scan.pc \in {"filled", "failed"}
  /\ mutex' = [mutex EXCEPT ![TraversabilityLock] = "none"]
  /\ last' = [Call("traversabilityFootprint", [footprintYaw |-> scan.footprintYaw], scan.pc = "filled")
                EXCEPT !.exc = (scan.pc = "failed")]
  /\ scan' = NoScan
  /\ UNCHANGED <<elevationMap_, elevationMapInitialized_, traversabilityMap_,
                 traversabilityMapInitialized_, terrainMap_, zPosition_, traversabilityDefault_,
                 checkForRoughness_, checkRobotInclination_, pc, traversabilityMapCopy, cacheEpoch,
                 setSinceCopy, threads, traversabilityDefaultReadAtInit_, reader>>

\* The reader copying the grid without the mutex.
ReaderCopiesUnlocked ==
  /\ reader.pc = "waiting"
  /\ reader' = [pc |-> "copied", copy |-> traversabilityMap_]
  /\ UNCHANGED <<elevationMap_, elevationMapInitialized_, traversabilityMap_, traversabilityMapInitialized_,
                 terrainMap_, zPosition_, traversabilityDefault_, checkForRoughness_,
                 checkRobotInclination_, pc, traversabilityMapCopy, last, cacheEpoch, setSinceCopy, threads,
                 traversabilityDefaultReadAtInit_, mutex, scan>>

\* getTraversabilityMap / publishTraversabilityMap is called: the reader
\* asks for the traversability mutex (lines 177, 209).
ReaderWaits ==
  /\ reader.pc = "idle"
  /\ reader' = [reader EXCEPT !.pc = "waiting"]
  /\ UNCHANGED <<elevationMap_, elevationMapInitialized_, traversabilityMap_, traversabilityMapInitialized_,
                 terrainMap_, zPosition_, traversabilityDefault_, checkForRoughness_,
                 checkRobotInclination_, pc, traversabilityMapCopy, last, cacheEpoch, setSinceCopy, threads,
                 traversabilityDefaultReadAtInit_, mutex, scan>>

\* The reader obtains the mutex, copies the grid and gives the mutex back
\* (lines 177-179, 209-211).
ReaderCopies ==
  /\ reader.pc = "waiting"
  /\ mutex[TraversabilityLock] = "none"
  /\ reader' = [pc |-> "copied", copy |-> traversabilityMap_]
  /\ UNCHANGED <<elevationMap_, elevationMapInitialized_, traversabilityMap_, traversabilityMapInitialized_,
                 terrainMap_, zPosition_, traversabilityDefault_, checkForRoughness_,
                 checkRobotInclination_, pc, traversabilityMapCopy, last, cacheEpoch, setSinceCopy, threads,
                 traversabilityDefaultReadAtInit_, mutex, scan>>

ReaderReturns ==
  /\ reader.pc = "copied"
  /\ reader' = NoReader
  /\ UNCHANGED <<elevationMap_, elevationMapInitialized_, traversabilityMap_, traversabilityMapInitialized_,
                 terrainMap_, zPosition_, traversabilityDefault_, checkForRoughness_,
                 checkRobotInclination_, pc, traversabilityMapCopy, last, cacheEpoch, setSinceCopy, threads,
                 traversabilityDefaultReadAtInit_, mutex, scan>>

\* A thread of queries and footprint computations and a reader thread on a
\* computed map.
NextThreads ==
  \/ LockCircleQuery
  \/ LockPolygonQuery
  \/ ScanSpiralCell
  \/ ScanPolygonCell
  \/ UnlockQuery
  \/ LockFootprint
  \/ FillFootprintCell
  \/ UnlockFootprint
  \/ ReaderWaits
  \/ ReaderCopies
  \/ ReaderReturns
  \/ Return

SpecThreads == InitQuery /\ [][NextThreads]_vars

\* ------------------------------- the default for the unknown regions
\* The doubles a caller or the parameter server can hand over: not-a-number
\* and the values from -0.5 to 1.5 in steps of 0.1.
DefaultInputs == {NaN} \cup {k * 100 - 500 : k \in 0..20}

\* The state after construction with footprint/traversability_default read
\* from the parameter server (lines 110-114).
InitDefault ==
  \E p \in DefaultInputs :
    /\ elevationMap_ = [scen |-> 0, layers |-> {}]
    /\ elevationMapInitialized_ = FALSE
    /\ traversabilityMap_ = EmptyMap
    /\ traversabilityMapInitialized_ = FALSE
    /\ terrainMap_ = EmptyMap
    /\ zPosition_ = 0
    /\ traversabilityDefaultReadAtInit_ = boundTraversabilityValue(p)
    /\ traversabilityDefault_ = boundTraversabilityValue(traversabilityDefaultReadAtInit_)
    /\ checkForRoughness_ = FALSE
    /\ checkRobotInclination_ = FALSE
    /\ pc = "idle"
    /\ traversabilityMapCopy = EmptyMap
    /\ last = NoCall
    /\ cacheEpoch = "none"
    /\ setSinceCopy = FALSE
    /\ threads = NoThreads
    /\ mutex = Free
    /\ scan = NoScan
    /\ reader = NoReader

\* setDefaultTraversabilityUnknownRegions, lines 996-998.
SetDefaultTraversabilityUnknownRegions ==
  \E defaultTraversability \in DefaultInputs :
    /\ Idle
    /\ traversabilityDefault_' = boundTraversabilityValue(defaultTraversability)
    /\ last' = Call("setDefaultTraversabilityUnknownRegions",
                    [defaultTraversability |-> defaultTraversability], TRUE)
    /\ UNCHANGED <<elevationMap_, elevationMapInitialized_, traversabilityMap_,
                   traversabilityMapInitialized_, terrainMap_, zPosition_, checkForRoughness_,
                   checkRobotInclination_, pc, traversabilityMapCopy, cacheEpoch, setSinceCopy, threads,
                   traversabilityDefaultReadAtInit_, mutex, scan, reader>>

\* restoreDefaultTraversabilityUnknownRegionsReadAtInit, lines 1000-1002.
RestoreDefaultTraversabilityUnknownRegionsReadAtInit ==
  /\ Idle
  /\ traversabilityDefault_' = boundTraversabilityValue(traversabilityDefaultReadAtInit_)
  /\ last' = Call("restoreDefaultTraversabilityUnknownRegionsReadAtInit", [none |-> TRUE], TRUE)
  /\ UNCHANGED <<elevationMap_, elevationMapInitialized_, traversabilityMap_,
                 traversabilityMapInitialized_, terrainMap_, zPosition_, checkForRoughness_,
                 checkRobotInclination_, pc, traversabilityMapCopy, cacheEpoch, setSinceCopy, threads,
                 traversabilityDefaultReadAtInit_, mutex, scan, reader>>

\* getDefaultTraversabilityUnknownRegions, line 994: the value returned is
\* kept in the traversability field of the call.
GetDefaultTraversabilityUnknownRegions ==
  /\ Idle
  /\ last' = [Call("getDefaultTraversabilityUnknownRegions", [none |-> TRUE], TRUE)
               EXCEPT !.traversability = Dbl(traversabilityDefault_)]
  /\ UNCHANGED <<elevationMap_, elevationMapInitialized_, traversabilityMap_,
                 traversabilityMapInitialized_, terrainMap_, zPosition_, traversabilityDefault_,
                 checkForRoughness_, checkRobotInclination_, pc, traversabilityMapCopy, cacheEpoch, setSinceCopy, threads,
                 traversabilityDefaultReadAtInit_, mutex, scan, reader>>

\* The default is set, restored and read in any order.
NextDefault ==
  \/ SetDefaultTraversabilityUnknownRegions
  \/ RestoreDefaultTraversabilityUnknownRegionsReadAtInit
  \/ GetDefaultTraversabilityUnknownRegions
  \/ Return

SpecDefault == InitDefault /\ [][NextDefault]_vars

\* ------------------------------------------- the admissibility checks
\* The terrains the checks of a cell are run on, each with the check it is
\* made for:
\*   flat    nothing to find
\*   slopes  slope 0 everywhere
\*   rough   roughness 0 everywhere
\*   drop    a step down after cell 3 that never closes
\*   gap     a step down at cell 3 that closes at cell 4
\*   wall    a step down at cell 3 and a wall at cell 4
\*   ledge   cell 2 lies in a hollow between higher cells
\*   mixed   slopes, rough and drop together
FilterTerrains == {"flat", "slopes", "rough", "drop", "gap", "wall", "ledge", "mixed"}

FilterLayers(t) ==
  [traversability |-> [c \in 1 .. GridCols |-> One],
   traversability_slope |-> [c \in 1 .. GridCols |-> IF t \in {"slopes", "mixed"} THEN 0 ELSE One],
   traversability_roughness |-> [c \in 1 .. GridCols |-> IF t \in {"rough", "mixed"} THEN 0 ELSE One],
   traversability_step |->
     [c \in 1 .. GridCols |->
        CASE t \in {"drop", "mixed"} -> IF c \in {3, 4} THEN 0 ELSE One
          [] t \in {"gap", "wall", "ledge"} -> IF c \in {2, 3} THEN 0 ELSE One
          [] OTHER                   -> One],
   elevation |->
     [c \in 1 .. GridCols |->
        CASE t \in {"drop", "mixed"} -> IF c >= 4 THEN 0 ELSE 20
          [] t = "gap"               -> IF c = 3 THEN 0 ELSE 20
          [] t = "wall"              -> IF c = 3 THEN 0 ELSE IF c >= 4 THEN 40 ELSE 20
          [] t = "ledge"             -> IF c = 2 THEN 20 ELSE 40
          [] OTHER                   -> 20]]

\* What the footprint layers of a map hold when it is set: nothing, or the
\* value left from an earlier map (0.0, or a value that is not 0.0).
StoredCaches == {NaN, 0, 500}

CacheLayers == {"step_footprint", "slope_footprint", "roughness_footprint"}

FilterMap(t, stored) ==
  LET base == [size |-> GridCols, layers |-> FilterLayers(t)]
  IN  [base EXCEPT !.layers = [l \in (DOMAIN base.layers) \cup CacheLayers \cup {"traversability_footprint"} |->
                                 IF l \in CacheLayers THEN [c \in 1 .. GridCols |-> stored]
                                 ELSE IF l = "traversability_footprint" THEN [c \in 1 .. GridCols |-> NaN]
                                 ELSE base.layers[l]]]

\* The state after setTraversabilityMap has stored a map with its footprint
\* layers (lines 158-172).
InitFilters ==
  \E t \in FilterTerrains, stored \in StoredCaches :
    /\ checkForRoughness_ \in BOOLEAN
    /\ checkRobotInclination_ = FALSE
    /\ traversabilityDefault_ = boundTraversabilityValue(600)
    /\ elevationMap_ = [scen |-> 0, layers |-> {}]
    /\ elevationMapInitialized_ = FALSE
    /\ traversabilityMap_ = FilterMap(t, stored)
    /\ traversabilityMapInitialized_ = TRUE
    /\ terrainMap_ = EmptyMap
    /\ zPosition_ = 1
    /\ pc = "idle"
    /\ traversabilityMapCopy = EmptyMap
    /\ last = NoCall
    /\ cacheEpoch = "none"
    /\ setSinceCopy = FALSE
    /\ threads = NoThreads
    /\ traversabilityDefaultReadAtInit_ = traversabilityDefault_
    /\ mutex = Free
    /\ scan = NoScan
    /\ reader = NoReader

\* A check of a cell returns: the shared map holds its cache writes.
FilterReturned(op, index, out) ==
  /\ traversabilityMap_' = out.m
  /\ last' = [Call(op, [index |-> index], out.ret) EXCEPT !.exc = out.exc]
  /\ UNCHANGED <<elevationMap_, elevationMapInitialized_, traversabilityMapInitialized_, terrainMap_,
                 zPosition_, traversabilityDefault_, checkForRoughness_, checkRobotInclination_, pc,
                 traversabilityMapCopy, cacheEpoch, setSinceCopy, threads, traversabilityDefaultReadAtInit_, mutex, scan,
                 reader>>

IsTraversableForFilters ==
  /\ Idle
  /\ \E index \in Cells(traversabilityMap_) :
       FilterReturned("isTraversableForFilters", index, isTraversableForFilters(traversabilityMap_, index))

CheckForSlope ==
  /\ Idle
  /\ \E index \in Cells(traversabilityMap_) :
       FilterReturned("checkForSlope", index, checkForSlope(traversabilityMap_, index))

CheckForStep ==
  /\ Idle
  /\ \E index \in Cells(traversabilityMap_) :
       FilterReturned("checkForStep", index, checkForStep(traversabilityMap_, index))

CheckForRoughness ==
  /\ Idle
  /\ \E index \in Cells(traversabilityMap_) :
       FilterReturned("checkForRoughness", index, checkForRoughness(traversabilityMap_, index))

\* The checks of a cell, alone and together, in any order.
NextFilters ==
  \/ IsTraversableForFilters
  \/ CheckForSlope
  \/ CheckForStep
  \/ CheckForRoughness
  \/ Return

SpecFilters == InitFilters /\ [][NextFilters]_vars

\* ------------------------------------------------- the locking operations
\* Every acquisition in the source is a boost::recursive_mutex::scoped_lock:
\* an operation is the sequence of its lock and unlock steps, a callee that
\* takes a scoped lock and returns is a lock step, the callee's steps and an
\* unlock step, and a return gives back what the frame still holds.
lock(m) == <<"lock", m>>

unlock(m) == <<"unlock", m>>

\* A callee that holds the traversability mutex from its first line to its
\* return: checkForSlope (915), checkForStep (842), checkInclination (796),
\* isTraversableForFilters (822), the queries (646, 708).
scoped(steps) == <<lock(TraversabilityLock)>> \o steps \o <<unlock(TraversabilityLock)>>

\* A disc or polygon query (lines 646-668, 708-785) that visits a cell:
\* isTraversableForFilters (821-839) runs the slope and the step check there.
querySteps == scoped(scoped(scoped(<<>>) \o scoped(<<>>)))

\* publishTraversabilityMap (177-179) and publishTerrainMap (194-196).
publishTraversabilityMapSteps == <<lock(TraversabilityLock), unlock(TraversabilityLock)>>

publishTerrainMapSteps == <<lock("terrainMapMutex_"), unlock("terrainMapMutex_")>>

\* computeTraversability: the three copies (236-245), the write-backs
\* (267-269, 273-277) and the two publishers (279-280).
computeTraversabilitySteps ==
  <<lock(TraversabilityLock), unlock(TraversabilityLock), lock("elevationMapMutex_"),
    unlock("elevationMapMutex_"), lock("terrainMapMutex_"), unlock("terrainMapMutex_"),
    lock(TraversabilityLock), unlock(TraversabilityLock), lock("terrainMapMutex_"),
    unlock("terrainMapMutex_")>>
    \o publishTraversabilityMapSteps \o publishTerrainMapSteps

\* The operations and the lock steps of each of their return paths.
LockingOperations ==
  {[op |-> "setElevationMap", steps |-> <<>>],                        \* lines 138-141
   [op |-> "setElevationMap", steps |-> <<lock("elevationMapMutex_")>>],      \* 145, returns 150, 155
   [op |-> "setTraversabilityMap", steps |-> <<lock(TraversabilityLock)>>],               \* 162
   [op |-> "getTraversabilityMap", steps |-> <<lock(TraversabilityLock)>>],               \* 209
   [op |-> "resetTraversabilityFootprintLayers", steps |-> <<lock(TraversabilityLock)>>], \* 229
   [op |-> "publishTraversabilityMap", steps |-> publishTraversabilityMapSteps],
   [op |-> "publishTerrainMap", steps |-> publishTerrainMapSteps],
   \* computeTraversability left by the return of line 254 or 259, or at line 283
   [op |-> "computeTraversability", steps |-> SubSeq(computeTraversabilitySteps, 1, 6)],
   [op |-> "computeTraversability", steps |-> computeTraversabilitySteps],
   \* traversabilityFootprint(footprintYaw): line 287, or lines 292-348
   [op |-> "traversabilityFootprint", steps |-> <<>>],
   [op |-> "traversabilityFootprint",
    steps |-> scoped(querySteps \o querySteps) \o publishTraversabilityMapSteps],
   \* traversabilityFootprint(radius, offset), lines 357-363
   [op |-> "traversabilityFootprint", steps |-> scoped(querySteps) \o publishTraversabilityMapSteps],
   \* checkFootprintPath: lines 370-381; one pose (411-416); a segment left
   \* at line 474, or by the return of line 463 inside the lock of line 445;
   \* the polygonal variant (571-607)
   [op |-> "checkFootprintPath", steps |-> <<>>],
   [op |-> "checkFootprintPath", steps |-> scoped(<<>>) \o querySteps],
   [op |-> "checkFootprintPath", steps |-> scoped(<<>>) \o scoped(querySteps)],
   [op |-> "checkFootprintPath", steps |-> scoped(<<>>) \o <<lock(TraversabilityLock)>> \o querySteps]}

\* What the destructors of the scoped locks leave of what a frame holds.
releaseAtReturnKeeps(held) == held

releaseAtReturn(held) == [x \in Mutexes |-> 0]

\* The owners of the mutexes once thread t holds held.
OwnersWith(t, held) ==
  [x \in Mutexes |-> IF held[x] > 0 THEN ToString(t)
                     ELSE IF mutex[x] = ToString(t) THEN "none" ELSE mutex[x]]

LockFrame ==
  <<elevationMap_, elevationMapInitialized_, traversabilityMap_, traversabilityMapInitialized_,
    terrainMap_, zPosition_, traversabilityDefault_, checkForRoughness_, checkRobotInclination_,
    pc, traversabilityMapCopy, last, cacheEpoch, setSinceCopy, traversabilityDefaultReadAtInit_,
    scan, reader>>

\* A thread calls one of the operations.
EnterOperation(operations) ==
  /\ \E t \in Threads, o \in operations :
       /\ threads[t].op = "none"
       /\ threads' = [threads EXCEPT ![t] = [NoFrame EXCEPT !.op = o.op, !.steps = o.steps]]
  /\ UNCHANGED <<LockFrame, mutex>>

\* scoped_lock / lock(): the thread waits until the mutex is free or its own.
AcquireMutex ==
  /\ \E t \in Threads :
       /\ threads[t].i <= Len(threads[t].steps)
       /\ threads[t].steps[threads[t].i][1] = "lock"
       /\ mutex[threads[t].steps[threads[t].i][2]] \in {"none", ToString(t)}
       /\ LET held == [threads[t].held EXCEPT ![threads[t].steps[threads[t].i][2]] = @ + 1]
          IN  /\ threads' = [threads EXCEPT ![t].held = held, ![t].i = @ + 1]
              /\ mutex' = OwnersWith(t, held)
  /\ UNCHANGED LockFrame

\* unlock(), or the return of a callee that holds a scoped lock.
ReleaseMutex ==
  /\ \E t \in Threads :
       /\ threads[t].i <= Len(threads[t].steps)
       /\ threads[t].steps[threads[t].i][1] = "unlock"
       /\ threads[t].held[threads[t].steps[threads[t].i][2]] > 0
       /\ LET held == [threads[t].held EXCEPT ![threads[t].steps[threads[t].i][2]] = @ - 1]
          IN  /\ threads' = [threads EXCEPT ![t].held = held, ![t].i = @ + 1]
              /\ mutex' = OwnersWith(t, held)
  /\ UNCHANGED LockFrame

\* The operation returns: its scoped locks go out of scope.
LeaveOperation ==
  /\ \E t \in Threads :
       /\ threads[t].op # "none"
       /\ threads[t].i > Len(threads[t].steps)
       /\ threads' = [threads EXCEPT ![t] = [NoFrame EXCEPT !.held = releaseAtReturn(threads[t].held)]]
       /\ mutex' = OwnersWith(t, releaseAtReturn(threads[t].held))
  /\ UNCHANGED LockFrame

\* The callbacks of the node on its threads.
NextLocks ==
  \/ EnterOperation(LockingOperations)
  \/ AcquireMutex
  \/ ReleaseMutex
  \/ LeaveOperation

SpecLocks == Init /\ [][NextLocks]_vars

\* ------------------------------------------- the path check, pose by pose
\* The paths of both variants with every sequence of poses, their flags off.
PlainPaths ==
  {path \in Paths : /\ ~path.conservative /\ ~path.publishPolygons
                    /\ ~path.compute_untraversable_polygon /\ path.lengthPathSlot = "kept"}

\* checkFootprintPath is called (lines 367-388): it returns at once on a map
\* that is not initialized or for a path without poses, else it enters the
\* loop over the poses of its variant (lines 393-407, 512-527).
BeginPath ==
  /\ Idle
  /\ scan.pc = "idle"
  /\ \E path \in PlainPaths :
       IF ~traversabilityMapInitialized_ \/ Len(path.poses) = 0
         THEN /\ last' = [Call("checkFootprintPath", path, traversabilityMapInitialized_ = FALSE)
                            EXCEPT !.result = NewResult]
              /\ UNCHANGED scan
         ELSE /\ scan' = [pc |-> "pose", kind |-> IF path.footprint = {} THEN "circular" ELSE "polygonal",
                          path |-> path, i |-> 1,
                          st |-> IF path.footprint = {}
                                   THEN [result |-> NewResult, lengthPath |-> <<0, 1>>, nFilters |-> 0]
                                   ELSE [result |-> NewResult, polygon2 |-> {}, nFilters |-> 0]]
              /\ UNCHANGED last
  /\ UNCHANGED <<elevationMap_, elevationMapInitialized_, traversabilityMap_, traversabilityMapInitialized_,
                 terrainMap_, zPosition_, traversabilityDefault_, checkForRoughness_,
                 checkRobotInclination_, pc, traversabilityMapCopy, cacheEpoch, setSinceCopy,
                 traversabilityDefaultReadAtInit_, mutex, reader, threads>>

\* One pass of the loop over the poses (lines 407-504, 527-627), or its end.
\* The pass takes the traversability mutex (lines 445, 646, 708, 796): it
\* waits while another thread owns it.
PathPose ==
  /\ scan.pc = "pose"
  /\ mutex[TraversabilityLock] = "none"
  /\ IF scan.i > Len(scan.path.poses)
       THEN scan' = [scan EXCEPT !.pc = "end"] /\ UNCHANGED traversabilityMap_
       ELSE LET pass(r) ==
                  /\ traversabilityMap_' = r.m
                  /\ scan' = [scan EXCEPT !.st = r.st, !.i = @ + 1,
                                          !.pc = IF r.done = "next" THEN "pose" ELSE r.done]
            IN  IF scan.kind = "circular"
                  THEN pass(circularPose(traversabilityMap_, scan.path, scan.i, scan.st))
                  ELSE pass(polygonalPose(traversabilityMap_, scan.path, scan.i, scan.st))
  /\ UNCHANGED <<elevationMap_, elevationMapInitialized_, traversabilityMapInitialized_,
                 terrainMap_, zPosition_, traversabilityDefault_, checkForRoughness_,
                 checkRobotInclination_, pc, traversabilityMapCopy, last, cacheEpoch, setSinceCopy,
                 traversabilityDefaultReadAtInit_, mutex, reader, threads>>

\* The call is left: after the loop with is_safe set (lines 507-508,
\* 629-630), by a return true inside it, or by an exception.
EndPath ==
  /\ scan.pc \in {"end", "return", "throw"}
  /\ last' = [Call("checkFootprintPath", scan.path, scan.pc # "throw") EXCEPT
                !.exc = (scan.pc = "throw"),
                !.result = IF scan.pc = "end" THEN [scan.st.result EXCEPT !.is_safe = TRUE]
                           ELSE scan.st.result,
                !.nFilters = scan.st.nFilters, !.variant = scan.kind]
  /\ scan' = NoScan
  /\ UNCHANGED <<elevationMap_, elevationMapInitialized_, traversabilityMap_, traversabilityMapInitialized_,
                 terrainMap_, zPosition_, traversabilityDefault_, checkForRoughness_,
                 checkRobotInclination_, pc, traversabilityMapCopy, cacheEpoch, setSinceCopy,
                 traversabilityDefaultReadAtInit_, mutex, reader, threads>>

\* The readers of the traversability map on the other threads.
ReaderOperations ==
  {o \in LockingOperations : o.op \in {"publishTraversabilityMap", "getTraversabilityMap"}}

\* A path check pose by pose on a computed map, and the readers.
NextPath ==
  \/ BeginPath
  \/ PathPose
  \/ EndPath
  \/ Return
  \/ EnterOperation(ReaderOperations)
  \/ AcquireMutex
  \/ ReleaseMutex
  \/ LeaveOperation

\* Every thread goes on when it can, and a thread that waits for a mutex
\* obtains it if the mutex is free again and again.  The fairness of the
\* path check and of the return of a reader is written out with the guards
\* of their actions: strong for the pass that takes the mutex, weak for the
\* two returns.
SpecPath ==
  /\ InitQuery
  /\ [][NextPath]_vars
  /\ (<>[](~(scan.pc = "pose" /\ mutex[TraversabilityLock] = "none")) \/ []<><<PathPose>>_vars)
  /\ ([]<>(scan.pc \notin {"end", "return", "throw"}) \/ []<><<EndPath>>_vars)
  /\ ([]<>(\A t \in Threads : threads[t].op = "none" \/ threads[t].i <= Len(threads[t].steps))
        \/ []<><<LeaveOperation>>_vars)
  /\ SF_vars(AcquireMutex)
  /\ WF_vars(ReleaseMutex)

\* -------------------------------------------------------------- claims
\* A step in which the operation op returns.
Returns(op) == last.op = "none" /\ last'.op = op

\* The grid with every footprint cache layer it has invalid.
FreshCaches(m) == ClearLayers(m, FootprintLayers)

\* C1: a multi-pose path one of whose segments fails its footprint query
\* leaves the result with is_safe = false, traversability = 0 and area = 0,
\* however many earlier segments succeeded.  (With the inclination check
\* off, a path check that ends unsafe without an exception has had a
\* footprint query fail.)
C1_FailedSegmentLeavesDefaults ==
  (/\ last.op = "checkFootprintPath"
   /\ Len(last.arg.poses) > 1
   /\ ~checkRobotInclination_
   /\ ~last.exc
   /\ ~last.result.is_safe)
    => last.result.traversability = <<0, 1>> /\ last.result.area = <<0, 1>>

\* C2: while the traversability map is marked uninitialized, a
\* checkFootprintPath call sets is_safe = false, enters neither path variant,
\* runs no admissibility check and leaves the shared map as it was.
C2_UninitializedShortCircuits ==
  [][(Returns("checkFootprintPath") /\ ~traversabilityMapInitialized_)
       => /\ ~last'.result.is_safe
          /\ last'.variant = "none"
          /\ last'.nFilters = 0
          /\ traversabilityMap_' = traversabilityMap_]_vars

\* A path with poses was checked on a stored map marked uninitialized.
C2_Witness ==
  /\ last.op = "checkFootprintPath"
  /\ ~traversabilityMapInitialized_
  /\ Len(last.arg.poses) > 0
  /\ Has(traversabilityMap_, "traversability_footprint")

\* C3 (as stated): every checkFootprintPath call whose path has zero poses
\* yields is_safe = false and returns false.
C3_ZeroPosesReturnFalse ==
  (last.op = "checkFootprintPath" /\ Len(last.arg.poses) = 0)
    => ~last.result.is_safe /\ ~last.ret

\* C3 (amended): a zero-pose call yields is_safe = false; it returns false
\* when the traversability map is marked initialized, and true while it is
\* marked uninitialized (the initialized flag is checked first).
C3_ZeroPosesOnInitializedMap ==
  (last.op = "checkFootprintPath" /\ Len(last.arg.poses) = 0)
    => ~last.result.is_safe /\ (last.ret = ~traversabilityMapInitialized_)

\* A zero-pose path was checked on an initialized map.
C3_Witness ==
  /\ last.op = "checkFootprintPath"
  /\ Len(last.arg.poses) = 0
  /\ traversabilityMapInitialized_
  /\ ~last.ret

\* C4: two successive disc queries with the same arguments, nothing in
\* between, return the same boolean and the same score: in the state a disc
\* query has left, the same query returns what it returned.
C4_DiscQueryIdempotent ==
  (last.op = "isTraversableCircle" /\ ~last.exc)
    => LET again(out) == out.ret = last.ret /\ out.traversability = last.traversability
       IN  again(isTraversableCircle(traversabilityMap_, last.arg.center, last.arg.radiusMax,
                                     last.arg.computeUntraversablePolygon, last.arg.radiusMin))

\* C5: a setElevationMap call with a foreign frame or without a required
\* layer, and a setTraversabilityMap call without a required layer, returns
\* false; a set call that returns false leaves both stored maps and their
\* initialized flags as they were.
C5_RejectedSetKeepsMap ==
  [][/\ Returns("setElevationMap")
          => ((last'.arg.frame # mapFrameId_ \/ last'.arg.kind = "short") => ~last'.ret)
     /\ Returns("setTraversabilityMap") => (last'.arg.kind = "short" => ~last'.ret)
     /\ ((Returns("setElevationMap") \/ Returns("setTraversabilityMap")) /\ ~last'.ret)
          => /\ elevationMap_' = elevationMap_
             /\ elevationMapInitialized_' = elevationMapInitialized_
             /\ traversabilityMap_' = traversabilityMap_
             /\ traversabilityMapInitialized_' = traversabilityMapInitialized_]_vars

\* An elevation map without a required layer was rejected while another
\* terrain was stored.
C5_Witness ==
  /\ last.op = "setElevationMap"
  /\ ~last.ret
  /\ last.arg.frame = mapFrameId_
  /\ elevationMapInitialized_
  /\ elevationMap_.scen # last.arg.scen

\* C6: setTraversabilityMap rejects a map whose frame is not the configured
\* map frame: the call returns false.
C6_ForeignFrameRejected ==
  (last.op = "setTraversabilityMap" /\ last.arg.frame # mapFrameId_) => ~last.ret

\* C7: computeTraversability returns false when the filter chain fails or
\* the elevation map is not initialized; a call that returns false marks the
\* traversability map uninitialized and leaves the shared traversability map
\* and the terrain map as they were; the mark is lifted only by a later
\* computeTraversability whose chain succeeded or a setTraversabilityMap
\* that returned true, and every checkFootprintPath made under it yields
\* is_safe = false.
C7_FilterFailureMarksUninitialized ==
  [][/\ (Returns("computeTraversability") /\ pc = "idle")
          => /\ (~last'.arg.chainOk \/ ~elevationMapInitialized_) => ~last'.ret
             /\ ~last'.ret
                  => /\ ~traversabilityMapInitialized_'
                     /\ traversabilityMap_' = traversabilityMap_
                     /\ terrainMap_' = terrainMap_
     /\ (pc = "idle" /\ pc' = "filtered") => elevationMapInitialized_
     /\ (~traversabilityMapInitialized_ /\ traversabilityMapInitialized_')
          => \/ pc = "idle" /\ pc' = "filtered"
             \/ Returns("setTraversabilityMap") /\ last'.ret
     /\ (Returns("checkFootprintPath") /\ ~traversabilityMapInitialized_)
          => ~last'.result.is_safe]_vars

\* The filter chain failed on an initialized elevation map, with a computed
\* map and its terrain map stored.
C7_Witness ==
  /\ last.op = "computeTraversability"
  /\ ~last.ret
  /\ elevationMapInitialized_
  /\ ~traversabilityMapInitialized_
  /\ Has(traversabilityMap_, "traversability_footprint")
  /\ Has(terrainMap_, "terrain_traversability")

\* C8: after resetTraversabilityFootprintLayers returns, every cell of each
\* of the four footprint layers the traversability map has is invalid.
C8_ResetClearsEveryFootprintLayer ==
  last.op = "resetTraversabilityFootprintLayers"
    => \A l \in FootprintLayers \cap DOMAIN traversabilityMap_.layers :
         \A c \in Cells(traversabilityMap_) : ~IsValid(traversabilityMap_, l, c)

\* C9: after a reset of the footprint layers followed by a change of the
\* base layers, a disc or polygon query returns what it returns on the new
\* base layers with every footprint cache invalid.
C9_NoStaleCacheAfterReset ==
  (cacheEpoch = "changed" /\ last.op \in {"isTraversableCircle", "isTraversablePolygon"})
    => LET same(out) ==
             out.exc = last.exc /\ out.ret = last.ret /\ out.traversability = last.traversability
       IN  IF last.op = "isTraversableCircle"
             THEN same(isTraversableCircle(FreshCaches(traversabilityMap_), last.arg.center,
                                           last.arg.radiusMax, last.arg.computeUntraversablePolygon,
                                           last.arg.radiusMin))
             ELSE same(isTraversablePolygon(FreshCaches(traversabilityMap_), last.arg.polygon,
                                            last.arg.computeUntraversablePolygon, {}))

\* C10: a disc query whose centre lies outside the grid returns the default
\* traversability as score, returns true exactly when the default is not 0,
\* runs no admissibility check and leaves the shared map as it was.
C10_OutsideCentreGivesDefault ==
  [][(Returns("isTraversableCircle") /\ ~isInside(traversabilityMap_, last'.arg.center))
       => /\ last'.traversability = Dbl(traversabilityDefault_)
          /\ last'.ret = (traversabilityDefault_ # 0)
          /\ last'.nFilters = 0
          /\ ~last'.exc
          /\ traversabilityMap_' = traversabilityMap_]_vars

\* A disc query outside the grid was answered with a default of 0.
C10_Witness ==
  /\ last.op = "isTraversableCircle"
  /\ ~isInside(traversabilityMap_, last.arg.center)
  /\ traversabilityDefault_ = 0
  /\ ~last.ret

\* The cells whose robot-slope value checkInclination reads for a path: the
\* cell of the single pose, or the cells of the lines between consecutive poses.
InclinationSamples(path) ==
  IF Len(path.poses) = 1 THEN {getIndex(path.poses[1])}
  ELSE UNION {{LineIterator(getIndex(path.poses[i - 1]), getIndex(path.poses[i]))[j] :
                 j \in 1 .. (Abs(getIndex(path.poses[i]) - getIndex(path.poses[i - 1])) + 1)} :
              i \in 2 .. Len(path.poses)}

\* C11: with the inclination check enabled, a path one of whose robot-slope
\* samples is invalid or zero ends with is_safe = false.
C11_InvalidOrZeroSlopeVetoes ==
  (/\ last.op = "checkFootprintPath"
   /\ checkRobotInclination_
   /\ traversabilityMapInitialized_
   /\ ~last.exc
   /\ Len(last.arg.poses) > 0
   /\ \E c \in InclinationSamples(last.arg) \cap Cells(traversabilityMap_) :
        \/ ~IsValid(traversabilityMap_, robotSlopeType_, c)
        \/ At(traversabilityMap_, robotSlopeType_, c) = 0)
    => ~last.result.is_safe

\* C12: no thread holds the traversability mutex while it runs a spiral
\* search or a polygon scan, so that a reader waiting for the mutex while a
\* query is in its loop finds the mutex free.
C12_NoLockWhileScanning ==
  (scan.pc = "loop" /\ reader.pc = "waiting") => mutex[TraversabilityLock] = "none"

\* The locals of the sampling loop of a segment as it starts (lines 442-450).
SegmentStart ==
  [pathIsTraversable |-> TRUE, traversabilityTemp |-> <<0, 1>>, traversabilitySum |-> <<0, 1>>,
   nLine |-> 0, nFilters |-> 0]

\* The sampling of the segment that ends at pose i, on the grid m.
Segment(m, path, i) ==
  sampleLoop(m, path, LineIterator(getIndex(path.poses[i]), getIndex(path.poses[i - 1])), 1, SegmentStart)

\* The segment passed its inclination check (when enabled) and every disc
\* query of its samples.
SegmentSucceeds(m, path, i, seg) ==
  /\ checkRobotInclination_ => checkInclination(m, path.poses[i - 1], path.poses[i]).ret
  /\ seg.done = "end"
  /\ seg.st.pathIsTraversable

SegmentScore(seg) == RDiv(seg.st.traversabilitySum, <<seg.st.nLine, 1>>)

\* C13: a circular path of three poses whose two segments have the same
\* length and both succeed with the same score t is answered is_safe = true
\* with traversability t.
C13_UniformSegmentsScoreT ==
  [][(/\ Returns("checkFootprintPath")
      /\ traversabilityMapInitialized_
      /\ last'.arg.footprint = {}
      /\ Len(last'.arg.poses) = 3
      /\ Abs(last'.arg.poses[2] - last'.arg.poses[1]) = Abs(last'.arg.poses[3] - last'.arg.poses[2]))
       => LET second(seg1, seg2) ==
                (/\ SegmentSucceeds(traversabilityMap_, last'.arg, 2, seg1)
                 /\ SegmentSucceeds(seg1.m, last'.arg, 3, seg2)
                 /\ SegmentScore(seg1) = SegmentScore(seg2))
                  => /\ last'.ret
                     /\ last'.result.is_safe
                     /\ last'.result.traversability = SegmentScore(seg1)
              first(seg1) == second(seg1, Segment(seg1.m, last'.arg, 3))
          IN  first(Segment(traversabilityMap_, last'.arg, 2))]_vars

\* A circular path of three poses over uniform ground was found safe with
\* the score of its segments, the weight of the first segment read as zero.
C13_Witness ==
  /\ last.op = "checkFootprintPath"
  /\ last.arg.footprint = {}
  /\ Len(last.arg.poses) = 3
  /\ last.arg.lengthPathSlot = "zero"
  /\ last.result.is_safe
  /\ last.result.traversability = <<800, 1>>

\* C14: for a path of one pose the result is the outcome of the one disc
\* query (circular footprint) or polygon query (polygonal footprint) at that
\* pose: is_safe is the boolean of the query and the result traversability
\* is its score.
C14_SinglePoseIsOneQuery ==
  [][(/\ Returns("checkFootprintPath")
      /\ traversabilityMapInitialized_
      /\ ~checkRobotInclination_
      /\ Len(last'.arg.poses) = 1)
       => LET same(qr) ==
                ~qr.exc => /\ last'.result.is_safe = qr.ret
                           /\ last'.result.traversability = qr.traversability
          IN  IF last'.arg.footprint = {}
                THEN same(isTraversableCircle(traversabilityMap_, last'.arg.poses[1],
                                              last'.arg.radius + offset,
                                              last'.arg.compute_untraversable_polygon, last'.arg.radius))
                ELSE same(isTraversablePolygon(traversabilityMap_,
                                               {last'.arg.poses[1] + v : v \in last'.arg.footprint},
                                               last'.arg.compute_untraversable_polygon, {}))]_vars

\* The sum over the cells S of the base traversability value, the default
\* substituted where it is invalid.
RECURSIVE BaseSum(_, _)
BaseSum(m, S) ==
  IF S = {} THEN <<0, 1>>
  ELSE LET c == CHOOSE x \in S : TRUE
       IN  RAdd(IF IsValid(m, traversabilityType_, c) THEN <<At(m, traversabilityType_, c), 1>>
                ELSE <<traversabilityDefault_, 1>>,
                BaseSum(m, S \ {c}))

\* C15: the polygon query returns true iff every interior cell is admissible
\* and there is an interior cell or the default is not 0; when it returns
\* true the score is the mean over the interior cells of the base
\* traversability value (the default where it is invalid), the default when
\* there is no interior cell, and the value of the cell when there is one.
C15_PolygonQueryReference ==
  [][(Returns("isTraversablePolygon") /\ ~last'.exc)
       => LET interior == PolygonCells(traversabilityMap_, last'.arg.polygon)
              admissible == \A c \in interior : isTraversableForFilters(traversabilityMap_, c).ret
          IN  /\ last'.ret = (admissible /\ (interior # {} \/ traversabilityDefault_ # 0))
              /\ last'.ret =>
                   last'.traversability =
                     IF interior = {} THEN <<traversabilityDefault_, 1>>
                     ELSE RDiv(BaseSum(traversabilityMap_, interior), <<Cardinality(interior), 1>>)
              /\ \A c \in interior :
                   (last'.ret /\ interior = {c} /\ IsValid(traversabilityMap_, traversabilityType_, c))
                     => last'.traversability = <<At(traversabilityMap_, traversabilityType_, c), 1>>]_vars

\* A polygon over several cells, one of them without a valid traversability
\* value, was answered true.
C15_Witness ==
  /\ last.op = "isTraversablePolygon"
  /\ last.ret
  /\ Cardinality(PolygonCells(traversabilityMap_, last.arg.polygon)) > 1
  /\ \E c \in PolygonCells(traversabilityMap_, last.arg.polygon) :
       ~IsValid(traversabilityMap_, traversabilityType_, c)

\* p <= q and p < q for finite scores.
RLeq(p, q) == RFinite(p) /\ RFinite(q) /\ p[1] * q[2] <= q[1] * p[2]

RLess(p, q) == RFinite(p) /\ RFinite(q) /\ p[1] * q[2] < q[1] * p[2]

\* The place in the spiral of the first inadmissible cell, 0 when every cell
\* of the spiral is admissible.
FirstInadmissible(m, cells) ==
  LET bad == {i \in 1 .. Len(cells) : ~isTraversableForFilters(m, cells[i][1]).ret}
  IN  IF bad = {} THEN 0 ELSE SetMin(bad)

\* The spiral radius of the first inadmissible cell of the disc of a query
\* on the grid m, -1 when every cell of the disc is admissible.
FirstObstacleRadius(m, q) ==
  LET at(cells, i) == IF i = 0 THEN 0 - 1 ELSE cells[i][2]
      first(cells) == at(cells, FirstInadmissible(m, cells))
  IN  first(SpiralIterator(m, q.center, q.radiusMax))

\* C16: for a centre and a radiusMax whose first inadmissible cell lies at a
\* spiral radius r, radiusMin < r <= radiusMax, the score of the disc query
\* with radiusMin > 0 is at least its score with radiusMin = 0, and below 1.0.
C16_MonotonicConfidence ==
  [][(/\ Returns("isTraversableCircle")
      /\ ~last'.exc
      /\ last'.arg.radiusMin > 0
      /\ Searches(traversabilityMap_, last'.arg.center)
      /\ FirstObstacleRadius(traversabilityMap_, last'.arg) > last'.arg.radiusMin)
       => LET atLeast(zero) ==
                /\ RLeq(zero.traversability, last'.traversability)
                /\ RLess(last'.traversability, <<One, 1>>)
          IN  atLeast(isTraversableCircle(traversabilityMap_, last'.arg.center, last'.arg.radiusMax,
                                          last'.arg.computeUntraversablePolygon, 0))]_vars

\* The cells the spiral of a query visits before its first inadmissible cell.
CellsBeforeObstacle(m, q) ==
  LET upTo(cells, k) == {cells[i][1] : i \in 1 .. (k - 1)}
      before(cells) == upTo(cells, FirstInadmissible(m, cells))
  IN  before(SpiralIterator(m, q.center, q.radiusMax))

\* A disc query returns that searched the grid and met its first
\* inadmissible cell beyond radiusMin > 0: the partial-discount case.
PartialDiscount ==
  /\ Returns("isTraversableCircle")
  /\ ~last'.exc
  /\ last'.arg.radiusMin > 0
  /\ Searches(traversabilityMap_, last'.arg.center)
  /\ FirstObstacleRadius(traversabilityMap_, last'.arg) > last'.arg.radiusMin

\* C18: a disc query with radiusMin > 0 whose first inadmissible cell lies at
\* a radius r > radiusMin returns true, whatever computeUntraversablePolygon
\* is, and its search stops at that cell.
C18_PartialDiscStaysTraversable ==
  [][PartialDiscount
       => /\ last'.ret
          /\ last'.nFilters = Cardinality(CellsBeforeObstacle(traversabilityMap_, last'.arg)) + 1]_vars

\* C19: in the partial-discount case, with n admissible cells of
\* traversability sum S visited before the inadmissible cell at radius r, the
\* score returned and cached at the centre is S/n scaled once by the blend
\* factor of r.
C19_PartialDiscountDividesOnce ==
  [][PartialDiscount
       => LET before == CellsBeforeObstacle(traversabilityMap_, last'.arg)
              once == RMul(RDiv(BaseSum(traversabilityMap_, before), <<Cardinality(before), 1>>),
                           blendFactor(FirstObstacleRadius(traversabilityMap_, last'.arg),
                                       last'.arg.radiusMax, last'.arg.radiusMin))
          IN  /\ last'.traversability = once
              /\ At(traversabilityMap_', "traversability_footprint", getIndex(last'.arg.center))
                   = ToFloat(once)]_vars

\* C20: a disc query that searches the grid and meets its first inadmissible
\* cell with radiusMin = 0, or at a radius r <= radiusMin, returns false with
\* score 0 and leaves 0 in traversability_footprint at the centre; it stops
\* at that cell when no untraversable polygon is asked for and visits the
\* whole spiral when one is.
C20_FailingDiscScoresZero ==
  [][(/\ Returns("isTraversableCircle")
      /\ ~last'.exc
      /\ Searches(traversabilityMap_, last'.arg.center)
      /\ FirstObstacleRadius(traversabilityMap_, last'.arg) >= 0
      /\ \/ last'.arg.radiusMin = 0
         \/ FirstObstacleRadius(traversabilityMap_, last'.arg) <= last'.arg.radiusMin)
       => /\ ~last'.ret
          /\ last'.traversability = <<0, 1>>
          /\ At(traversabilityMap_', "traversability_footprint", getIndex(last'.arg.center)) = 0
          /\ last'.nFilters =
               IF last'.arg.computeUntraversablePolygon
                 THEN Len(SpiralIterator(traversabilityMap_, last'.arg.center, last'.arg.radiusMax))
                 ELSE Cardinality(CellsBeforeObstacle(traversabilityMap_, last'.arg)) + 1]_vars

\* C17: after any sequence of setDefaultTraversabilityUnknownRegions and
\* restoreDefaultTraversabilityUnknownRegionsReadAtInit calls,
\* getDefaultTraversabilityUnknownRegions returns a value inside
\* [traversabilityMinValue, traversabilityMaxValue]: set(v) stores v when v
\* is in range and the nearer bound otherwise, and restore stores the value
\* read at initialization, itself in range.
InRange(q) ==
  RFinite(q) /\ RLeq(Dbl(traversabilityMinValue), q) /\ RLeq(q, Dbl(traversabilityMaxValue))

NearestInRange(v) ==
  IF v \in traversabilityMinValue..traversabilityMaxValue THEN v
  ELSE CHOOSE b \in {traversabilityMinValue, traversabilityMaxValue} :
         \A c \in {traversabilityMinValue, traversabilityMaxValue} :
           (IF b > v THEN b - v ELSE v - b) <= (IF c > v THEN c - v ELSE v - c)

C17_DefaultStaysInRange ==
  [][/\ Returns("getDefaultTraversabilityUnknownRegions") => InRange(last'.traversability)
     /\ (Returns("setDefaultTraversabilityUnknownRegions")
           /\ last'.arg.defaultTraversability # NaN)
          => traversabilityDefault_' = NearestInRange(last'.arg.defaultTraversability)
     /\ Returns("restoreDefaultTraversabilityUnknownRegionsReadAtInit")
          => /\ traversabilityDefault_' = traversabilityDefaultReadAtInit_
             /\ InRange(Dbl(traversabilityDefaultReadAtInit_))]_vars

\* The same for the values that are numbers: every set stores the nearest
\* value of the range and no set of a number takes the default out of it.
C17_NumbersAreClamped ==
  [][(Returns("setDefaultTraversabilityUnknownRegions")
        /\ last'.arg.defaultTraversability # NaN)
       => /\ traversabilityDefault_' = NearestInRange(last'.arg.defaultTraversability)
          /\ InRange(Dbl(traversabilityDefault_'))]_vars

\* The cells of the spiral of a disc query.
SpiralCells(m, q) ==
  LET all(cells) == {cells[i][1] : i \in 1 .. Len(cells)}
  IN  all(SpiralIterator(m, q.center, q.radiusMax))

\* C21: when every cell visited by the spiral of a disc query is admissible,
\* the query returns true, its score is the sum over the visited cells of
\* the base traversability value (the default where it is invalid) divided
\* by their number, and that score is written to traversability_footprint
\* at the centre cell.
C21_AllAdmissibleScoresMean ==
  [][(/\ Returns("isTraversableCircle")
      /\ ~last'.exc
      /\ Searches(traversabilityMap_, last'.arg.center)
      /\ \A c \in SpiralCells(traversabilityMap_, last'.arg) :
           isTraversableForFilters(traversabilityMap_, c).ret)
       => LET visited == SpiralCells(traversabilityMap_, last'.arg)
              mean == RDiv(BaseSum(traversabilityMap_, visited), <<Cardinality(visited), 1>>)
          IN  /\ last'.ret
              /\ last'.traversability = mean
              /\ last'.nFilters = Cardinality(visited)
              /\ At(traversabilityMap_', "traversability_footprint", getIndex(last'.arg.center))
                   = ToFloat(mean)]_vars

\* A disc of two admissible cells of different value was answered true with
\* their mean, which is then the cached value of the centre.
C21_Witness ==
  /\ last.op = "isTraversableCircle"
  /\ last.ret
  /\ last.nFilters = 2
  /\ last.traversability = <<650, 1>>
  /\ At(traversabilityMap_, "traversability_footprint", getIndex(last.arg.center)) = 650

\* The length-weighted mean of the scores of the segments from the one ending
\* at pose i on, each sampled on the grid the segments before it have left;
\* weighted and length are the sums over the segments before.  ok is false
\* when a segment does not succeed.
RECURSIVE SegmentsMean(_, _, _, _, _)
SegmentsMean(m, path, i, weighted, length) ==
  IF i > Len(path.poses) THEN [ok |-> TRUE, mean |-> RDiv(weighted, length)]
  ELSE LET lengthSegment == <<Abs(path.poses[i] - path.poses[i - 1]), 1>>
           next(seg) ==
             IF SegmentSucceeds(m, path, i, seg)
               THEN SegmentsMean(seg.m, path, i + 1,
                                 RAdd(weighted, RMul(lengthSegment, SegmentScore(seg))),
                                 RAdd(length, lengthSegment))
               ELSE [ok |-> FALSE, mean |-> NaNq]
       IN  next(Segment(m, path, i))

\* C22: in the circular path check with three or more poses whose segments
\* all succeed, the result traversability is the length-weighted mean of the
\* scores of the segments: the weight of the segments before is the sum of
\* their lengths, carried from one segment to the next.
C22_LengthWeightedMean ==
  [][(/\ Returns("checkFootprintPath")
      /\ traversabilityMapInitialized_
      /\ last'.arg.footprint = {}
      /\ Len(last'.arg.poses) >= 3)
       => LET mean(all) == all.ok => (last'.result.is_safe /\ last'.result.traversability = all.mean)
          IN  mean(SegmentsMean(traversabilityMap_, last'.arg, 2, <<0, 1>>, <<0, 1>>))]_vars

\* The same when the read of lengthPath finds what the segment before left.
C22_MeanWhenLengthIsKept ==
  [][(/\ Returns("checkFootprintPath")
      /\ traversabilityMapInitialized_
      /\ last'.arg.footprint = {}
      /\ last'.arg.lengthPathSlot = "kept"
      /\ Len(last'.arg.poses) >= 3)
       => LET mean(all) == all.ok => (last'.result.is_safe /\ last'.result.traversability = all.mean)
          IN  mean(SegmentsMean(traversabilityMap_, last'.arg, 2, <<0, 1>>, <<0, 1>>))]_vars

\* The inclination check of the segment that ends at pose i (of the single
\* pose when there is one).
SegmentInclination(m, path, i) ==
  checkInclination(m, IF i > 1 THEN path.poses[i - 1] ELSE path.poses[i], path.poses[i])

\* The segments of a path: the single pose, or the poses from the second on.
SegmentEnds(path) == IF Len(path.poses) = 1 THEN {1} ELSE 2 .. Len(path.poses)

\* From the segment ending at pose i on, every segment of a polygonal path
\* passes its inclination check (when enabled) and its polygon query, each
\* on the grid the queries before have left; polygon2 is the footprint
\* polygon of the pose before.
RECURSIVE PolygonalSegmentsPass(_, _, _, _)
PolygonalSegmentsPass(m, path, i, polygon2) ==
  IF i > Len(path.poses) THEN TRUE
  ELSE LET startToEnd == path.poses[i] - path.poses[i - 1]
           footprint == {path.poses[i] + v : v \in path.footprint}
           before == IF path.conservative THEN polygon2 \cup {v - startToEnd : v \in footprint}
                     ELSE polygon2
           after == IF path.conservative THEN footprint \cup {v + startToEnd : v \in polygon2}
                    ELSE footprint
           next(qr) == ~qr.exc /\ qr.ret /\ PolygonalSegmentsPass(qr.m, path, i + 1, after)
       IN  /\ checkRobotInclination_ => SegmentInclination(m, path, i).ret
           /\ next(isTraversablePolygon(m, convexHull(before \cup after),
                                        path.compute_untraversable_polygon, {}))

\* Every segment of the path (or its single pose) passes its inclination
\* check, when enabled, and every footprint query made for it returns true.
PathSegmentsPass(m, path) ==
  IF Len(path.poses) = 1
    THEN /\ checkRobotInclination_ => SegmentInclination(m, path, 1).ret
         /\ IF path.footprint = {}
              THEN isTraversableCircle(m, path.poses[1], path.radius + offset,
                                       path.compute_untraversable_polygon, path.radius).ret
              ELSE isTraversablePolygon(m, {path.poses[1] + v : v \in path.footprint},
                                        path.compute_untraversable_polygon, {}).ret
  ELSE IF path.footprint = {} THEN SegmentsMean(m, path, 2, <<0, 1>>, <<0, 1>>).ok
  ELSE PolygonalSegmentsPass(m, path, 2, {path.poses[1] + v : v \in path.footprint})

\* The segment ending at pose i is the first whose inclination check fails.
InclinationFailsFirstAt(m, path, i) ==
  /\ checkRobotInclination_
  /\ ~SegmentInclination(m, path, i).ret
  /\ ~SegmentInclination(m, path, i).exc
  /\ \A k \in SegmentEnds(path) : k < i => SegmentInclination(m, path, k).ret

\* The check of the path cut before the segment that ends at pose i: nothing
\* when that segment is the first.
PathBefore(m, path, i) ==
  IF i <= 2 THEN PathOut(m, NewResult, TRUE, FALSE, 0, "none")
  ELSE checkFootprintPath(m, [path EXCEPT !.poses = SubSeq(@, 1, i - 1)])

\* C23: a path check reports is_safe = true only if, for every segment (or
\* the single pose), the inclination check passed (when enabled) and every
\* footprint query of the segment returned true; the inclination check of a
\* segment runs before its footprint query, and when it fails no footprint
\* query is made and no cache is written for that segment or a later one.
C23_SafeOnlyIfAllSegmentsPass ==
  [][(/\ Returns("checkFootprintPath")
      /\ traversabilityMapInitialized_
      /\ Len(last'.arg.poses) > 0)
       => /\ last'.result.is_safe => PathSegmentsPass(traversabilityMap_, last'.arg)
          /\ \A i \in SegmentEnds(last'.arg) :
               InclinationFailsFirstAt(traversabilityMap_, last'.arg, i)
                 => LET stopped(before) ==
                          /\ ~last'.result.is_safe
                          /\ traversabilityMap_' = before.m
                          /\ last'.nFilters = before.nFilters
                    IN  stopped(PathBefore(traversabilityMap_, last'.arg, i))]_vars

\* A path of three poses was stopped by the inclination check of its second
\* segment after the footprint query of its first segment had passed.
C23_Witness ==
  /\ last.op = "checkFootprintPath"
  /\ checkRobotInclination_
  /\ Len(last.arg.poses) = 3
  /\ InclinationFailsFirstAt(traversabilityMap_, last.arg, 3)
  /\ ~last.result.is_safe
  /\ last.nFilters = 1

\* C24: isTraversableForFilters returns true iff the slope check passes, the
\* step check passes and the roughness check is disabled or passes; the
\* checks run in the order slope, step, roughness and a failing check ends
\* the evaluation: slope_footprint is what the slope check leaves,
\* step_footprint is written only when the slope check has passed, and
\* roughness_footprint only when the roughness check is enabled and the
\* checks before it have passed.
C24_FiltersShortCircuit ==
  [][(Returns("isTraversableForFilters") /\ ~last'.exc)
       => LET index == last'.arg.index
              slope == checkForSlope(traversabilityMap_, index)
              step == checkForStep(traversabilityMap_, index)
              rough == checkForRoughness(traversabilityMap_, index)
          IN  /\ last'.ret = (slope.ret /\ step.ret /\ (~checkForRoughness_ \/ rough.ret))
              /\ traversabilityMap_'.layers["slope_footprint"] = slope.m.layers["slope_footprint"]
              /\ traversabilityMap_'.layers["step_footprint"] =
                   IF slope.ret THEN step.m.layers["step_footprint"]
                   ELSE traversabilityMap_.layers["step_footprint"]
              /\ traversabilityMap_'.layers["roughness_footprint"] =
                   IF slope.ret /\ step.ret /\ checkForRoughness_
                     THEN rough.m.layers["roughness_footprint"]
                     ELSE traversabilityMap_.layers["roughness_footprint"]]_vars

\* With the roughness check enabled, a cell failed its slope check where the
\* step check and the roughness check had their searches still to make:
\* neither has written its cache.
C24_Witness ==
  /\ last.op = "isTraversableForFilters"
  /\ ~last.ret
  /\ checkForRoughness_
  /\ At(traversabilityMap_, "slope_footprint", last.arg.index) = 0
  /\ At(traversabilityMap_, stepType_, last.arg.index) = 0
  /\ At(traversabilityMap_, roughnessType_, last.arg.index) = 0
  /\ ~IsValid(traversabilityMap_, "step_footprint", last.arg.index)
  /\ ~IsValid(traversabilityMap_, "roughness_footprint", last.arg.index)

\* The three sub-checks, the base layer each reads and the cache layer each
\* keeps.
SubChecks == {"checkForSlope", "checkForStep", "checkForRoughness"}

SubCheckBase(op) ==
  CASE op = "checkForSlope" -> slopeType_
    [] op = "checkForStep" -> stepType_
    [] OTHER -> roughnessType_

SubCheckCache(op) ==
  CASE op = "checkForSlope" -> "slope_footprint"
    [] op = "checkForStep" -> "step_footprint"
    [] OTHER -> "roughness_footprint"

\* C25 (as stated): for each of the slope, step and roughness sub-checks,
\* whenever the footprint cache layer of the check holds a valid value at the
\* queried cell, the check returns the cached boolean (true iff the value is
\* not 0) and changes no layer.
C25_CachedValueIsReturned ==
  [][\A op \in SubChecks :
       (/\ Returns(op)
        /\ IsValid(traversabilityMap_, SubCheckCache(op), last'.arg.index))
         => /\ last'.ret = (At(traversabilityMap_, SubCheckCache(op), last'.arg.index) # 0)
            /\ traversabilityMap_' = traversabilityMap_]_vars

\* C25 (amended): at a cell whose base-layer value is 0.0, whenever the
\* footprint cache layer of the check holds a valid value, the check returns
\* the cached boolean (true iff the value is not 0) and changes no layer; at
\* a cell whose base-layer value is not 0.0 the check returns true whatever
\* the cache holds, and changes no layer.
C25_CachedValueOfZeroCells ==
  [][\A op \in SubChecks :
       Returns(op)
         => /\ (/\ At(traversabilityMap_, SubCheckBase(op), last'.arg.index) = 0
                /\ IsValid(traversabilityMap_, SubCheckCache(op), last'.arg.index))
                 => /\ last'.ret = (At(traversabilityMap_, SubCheckCache(op), last'.arg.index) # 0)
                    /\ traversabilityMap_' = traversabilityMap_
            /\ At(traversabilityMap_, SubCheckBase(op), last'.arg.index) # 0
                 => last'.ret /\ traversabilityMap_' = traversabilityMap_]_vars

\* The slope check of a cell amid slopes of 0 returned true from a cached
\* value that is not 0, where the search fails.
C25_Witness ==
  /\ last.op = "checkForSlope"
  /\ last.ret
  /\ At(traversabilityMap_, slopeType_, last.arg.index) = 0
  /\ At(traversabilityMap_, "slope_footprint", last.arg.index) = 500
  /\ ~checkForSlope(ClearLayer(traversabilityMap_, "slope_footprint"), last.arg.index).ret

\* The candidate cells of the step check of a cell (lines 851-857): the
\* neighbours of step value 0 higher than the cell by more than the critical
\* step height, or the cell itself when there is none.
StepCandidates(m, indexStep) ==
  LET high == {c \in CircleIterator(m, indexStep, (5 * resolution) \div 2) :
                 ElevAbove(At(m, "elevation", c), At(m, "elevation", indexStep))
                   /\ At(m, stepType_, c) = 0}
  IN  IF high = {} THEN {indexStep} ELSE high

\* The lines traced from a candidate (lines 871-886): one for each cell of
\* its window, of step value 0 and lower than the candidate by more than the
\* critical step height, that does not lie on the far side from the cell.
StepTraces(m, indexStep, index) ==
  LET subMapPos == getPosition(index)
      toCenter == getPosition(indexStep) - subMapPos
      lows == {s \in {index - 1, index + 1} \cap Cells(m) :
                 /\ At(m, stepType_, s) = 0
                 /\ ElevBelow(At(m, "elevation", s), At(m, "elevation", index))
                 /\ toCenter * (getPosition(s) - subMapPos) >= 0}
  IN  {LineIterator(index, getIndex(gapLanding(m, subMapPos, getPosition(s) - subMapPos, getPosition(s)))) :
         s \in lows}

\* The trace of a line from a candidate of elevation height visits its j-th
\* cell: no cell before it is a wall, and none closes a gap opened before.
TraceVisits(m, line, height, j) ==
  \A k \in 1 .. (j - 1) :
    /\ ~ElevAbove(At(m, "elevation", line[k]), height)
    /\ \/ ElevBelow(At(m, "elevation", line[k]), height)
       \/ At(m, "elevation", line[k]) = NaN
       \/ \A n \in 1 .. (k - 1) :
            /\ ~ElevBelow(At(m, "elevation", line[n]), height)
            /\ At(m, "elevation", line[n]) # NaN

\* The step check of the cell searches: its step value is 0 and its cache
\* entry invalid.
StepSearches(m, indexStep) ==
  At(m, stepType_, indexStep) = 0 /\ ~IsValid(m, "step_footprint", indexStep)

\* C26 (as stated): in the step check, for every candidate line trace, if a
\* traced cell has an elevation above the elevation of the query cell plus
\* the critical step height, checkForStep returns false and step_footprint
\* at the query cell is 0.0.
C26_WallAboveQueryCell ==
  [][(/\ Returns("checkForStep")
      /\ StepSearches(traversabilityMap_, last'.arg.index)
      /\ \E index \in StepCandidates(traversabilityMap_, last'.arg.index) :
           \E line \in StepTraces(traversabilityMap_, last'.arg.index, index) :
             \E j \in 1 .. Len(line) :
               /\ TraceVisits(traversabilityMap_, line, At(traversabilityMap_, "elevation", index), j)
               /\ ElevAbove(At(traversabilityMap_, "elevation", line[j]),
                            At(traversabilityMap_, "elevation", last'.arg.index)))
       => /\ ~last'.ret
          /\ At(traversabilityMap_', "step_footprint", last'.arg.index) = 0]_vars

\* C26 (amended): in the step check, for every candidate line trace, if a
\* traced cell has an elevation above the elevation of the candidate cell
\* the trace starts from plus the critical step height, checkForStep returns
\* false and step_footprint at the query cell is 0.0.
C26_WallAboveCandidate ==
  [][(/\ Returns("checkForStep")
      /\ StepSearches(traversabilityMap_, last'.arg.index)
      /\ \E index \in StepCandidates(traversabilityMap_, last'.arg.index) :
           \E line \in StepTraces(traversabilityMap_, last'.arg.index, index) :
             \E j \in 1 .. Len(line) :
               /\ TraceVisits(traversabilityMap_, line, At(traversabilityMap_, "elevation", index), j)
               /\ ElevAbove(At(traversabilityMap_, "elevation", line[j]),
                            At(traversabilityMap_, "elevation", index)))
       => /\ ~last'.ret
          /\ At(traversabilityMap_', "step_footprint", last'.arg.index) = 0]_vars

\* The step check of a cell before a step down with a wall behind it has
\* returned false and left 0.0 in the cache.
C26_Witness ==
  /\ last.op = "checkForStep"
  /\ ~last.ret
  /\ At(traversabilityMap_, "step_footprint", last.arg.index) = 0
  /\ \E index \in StepCandidates(traversabilityMap_, last.arg.index) :
       \E line \in StepTraces(traversabilityMap_, last.arg.index, index) :
         \E j \in 1 .. Len(line) :
           /\ TraceVisits(traversabilityMap_, line, At(traversabilityMap_, "elevation", index), j)
           /\ ElevAbove(At(traversabilityMap_, "elevation", line[j]),
                        At(traversabilityMap_, "elevation", index))

\* The interior cells of a polygon that are not admissible on the grid m.
InadmissibleInterior(m, polygon) ==
  {c \in PolygonCells(m, polygon) : ~isTraversableForFilters(m, c).ret}

\* C27: with the untraversable polygon asked for, the polygon query checks
\* every interior cell, the untraversable polygon it returns is the hull of
\* the positions of exactly the inadmissible interior cells, and it is the
\* empty polygon whenever the query returns true.
C27_UntraversablePolygonOfAllCells ==
  [][(/\ Returns("isTraversablePolygon")
      /\ ~last'.exc
      /\ last'.arg.computeUntraversablePolygon)
       => /\ last'.nFilters = Cardinality(PolygonCells(traversabilityMap_, last'.arg.polygon))
          /\ last'.polygon =
               convexHull({getPosition(c) :
                             c \in InadmissibleInterior(traversabilityMap_, last'.arg.polygon)})
          /\ last'.ret => last'.polygon = {}]_vars

\* A polygon over admissible cells followed by two inadmissible ones and an
\* admissible one was answered false with the hull of the two.
C27_Witness ==
  /\ last.op = "isTraversablePolygon"
  /\ last.arg.computeUntraversablePolygon
  /\ ~last.ret
  /\ last.nFilters = GridCols
  /\ last.polygon = {getPosition(3), getPosition(4)}

\* ------------------------------------------------------------------ C28
\* The layers of traversabilityFootprint on a grid are whole: both absent,
\* or both present with every cell written.
WholeFootprintLayers(m) ==
  IF Has(m, "traversability_x") \/ Has(m, "traversability_rot")
    THEN /\ Has(m, "traversability_x") /\ Has(m, "traversability_rot")
         /\ \A c \in Cells(m) : IsValid(m, "traversability_x", c) /\ IsValid(m, "traversability_rot", c)
    ELSE TRUE

\* C28: readers see only whole maps: the grid getTraversabilityMap returns or
\* publishTraversabilityMap copies is the shared traversability map at an
\* instant when no other thread is inside a lock-protected mutation of it; a
\* reader never sees the traversability_x / traversability_rot layers partly
\* filled by traversabilityFootprint.
C28_ReadersSeeWholeMaps ==
  [][(reader.pc = "waiting" /\ reader'.pc = "copied")
       => /\ scan.pc = "idle"
          /\ mutex[TraversabilityLock] = "none"
          /\ reader'.copy = traversabilityMap_
          /\ WholeFootprintLayers(reader'.copy)]_vars

\* A reader that asked for the map while the footprint layers were being
\* filled holds its copy, taken once they were complete.
C28_Witness ==
  /\ reader.pc = "copied"
  /\ Has(reader.copy, "traversability_x")
  /\ reader.copy = traversabilityMap_
  /\ last.op = "traversabilityFootprint"
  /\ last.ret

\* ------------------------------------------------------------------ C29
\* The cache layers a query reads and writes on the configuration at hand.
RequiredCaches ==
  {"step_footprint", "slope_footprint", "traversability_footprint"}
    \cup (IF checkForRoughness_ THEN {"roughness_footprint"} ELSE {})

\* C29: whenever the traversability map is marked initialized, the shared
\* traversability map holds the cache layers step_footprint, slope_footprint
\* and traversability_footprint, and roughness_footprint when the roughness
\* check is enabled, after setTraversabilityMap as well as after
\* computeTraversability, in every interleaving.
C29_InitializedMapHasCaches ==
  traversabilityMapInitialized_ => RequiredCaches \subseteq DOMAIN traversabilityMap_.layers

\* ------------------------------------------------------------------ C30
\* C30: no lost update: a map installed by a setTraversabilityMap call that
\* returned success is never replaced by a map derived from a snapshot taken
\* before that call; a computeTraversability that copied the map out before
\* the set and copies its result in after it leaves the newly set map alone.
C30_NoLostUpdate ==
  [][(pc = "filtered" /\ pc' = "written" /\ setSinceCopy)
       => traversabilityMap_' = traversabilityMap_]_vars

\* ------------------------------------------------------------------ C31
\* The mutexes a thread owns.
Owned(t) == {x \in Mutexes : threads[t].held[x] > 0}

\* A thread inside an operation waits: its next step is a lock of a mutex
\* another thread owns.
Waits(t) ==
  /\ threads[t].i <= Len(threads[t].steps)
  /\ threads[t].steps[threads[t].i][1] = "lock"
  /\ mutex[threads[t].steps[threads[t].i][2]] \notin {"none", ToString(t)}

Inside(t) == threads[t].op # "none"

\* C31: no thread ever holds two different grid mutexes at the same time,
\* every operation has released each mutex it acquired once it has returned,
\* on every return path, and no interleaving of the operations reaches a
\* state where every thread inside an operation waits for a lock.
C31_NoDeadlock ==
  /\ \A t \in Threads : Cardinality(Owned(t)) <= 1
  /\ \A t \in Threads : ~Inside(t) => Owned(t) = {}
  /\ \A x \in Mutexes : mutex[x] = "none" \/ \E t \in Threads : mutex[x] = ToString(t) /\ Inside(t)
  /\ (\E t \in Threads : Inside(t)) => \E t \in Threads : Inside(t) /\ ~Waits(t)

\* A thread waits for the traversability mutex while another one, inside a
\* path check that holds it recursively, is about to return from line 463.
C31_Witness ==
  \E t, u \in Threads :
    /\ Waits(t)
    /\ threads[u].op = "checkFootprintPath"
    /\ threads[u].held[TraversabilityLock] = 1
    /\ threads[u].i > Len(threads[u].steps)

\* ------------------------------------------------------------------ C32
\* The base layers are those computed from the stored elevation map.
BaseLayersComputed ==
  \A l \in DOMAIN BaseLayers(elevationMap_.scen) :
    Has(traversabilityMap_, l) /\ traversabilityMap_.layers[l] = BaseLayers(elevationMap_.scen)[l]

\* C32: the result of a disc query depends only on the base layers and on its
\* own centre, radiusMax and radiusMin; a traversability_footprint value an
\* earlier query with other radii (or a path check) left at the cell is never
\* its answer.  Stated of the queries whose disc is traversable with a score
\* above zero on the computed base layers: such a query returns true with the
\* score the same query gives on the grid with every footprint cache invalid.
C32_DiscQueryDependsOnOwnRadii ==
  [][(Returns("isTraversableCircle") /\ ~last'.exc /\ BaseLayersComputed)
       => LET fresh(out) ==
                (out.ret /\ ~out.exc /\ RNonZero(out.traversability))
                   => (last'.ret /\ ToFloat(last'.traversability) = ToFloat(out.traversability))
          IN  fresh(isTraversableCircle(FreshCaches(traversabilityMap_), last'.arg.center,
                                        last'.arg.radiusMax, last'.arg.computeUntraversablePolygon,
                                        last'.arg.radiusMin))]_vars

\* ------------------------------------------------------------------ C34
\* C34: a rejected setElevationMap or setTraversabilityMap call changes no
\* stored state at all: besides the maps and the initialized flags, the
\* stored vertical offset zPosition_ keeps the value it had before the call.
C34_RejectedSetChangesNothing ==
  [][((Returns("setElevationMap") \/ Returns("setTraversabilityMap")) /\ ~last'.ret)
       => UNCHANGED <<elevationMap_, elevationMapInitialized_, traversabilityMap_,
                      traversabilityMapInitialized_, zPosition_>>]_vars

\* C33 (termination): a checkFootprintPath call that has entered the loop
\* over its poses eventually leaves it, given that a waiting thread
\* eventually obtains the mutex.
C33_PathCheckTerminates == (scan.pc = "pose") ~> (scan.pc = "idle")

\* C33: a checkFootprintPath call on a finite path that has finished has
\* ended in DONE(safe) or DONE(unsafe): it has returned a result with is_safe
\* true or false, it has not been left by an exception.
C33_PathCheckReturnsDone ==
  last.op = "checkFootprintPath" => ~last.exc /\ last.result.is_safe \in BOOLEAN

====
